---- MODULE Spec2Model ----
(***************************************************************************)
(* Model of the demiurge-matrix memory subsystem and agent loop:           *)
(*   - Agent (src/src/lib/agent.ts): history, trimHistory, run(),          *)
(*     executeToolCalls, normalizeAssistantMessage;                        *)
(*   - MemoryStore (src/src/lib/memory-store.ts): records, search index,   *)
(*     lazy index initialisation;                                          *)
(*   - cleanup_memories (src/src/lib/memory-tools.ts).                     *)
(* Each subsystem has its own specification over the shared variables:     *)
(*   SpecAgent, SpecStore, SpecCleanup, SpecInit.                          *)
(***************************************************************************)
EXTENDS Integers, Sequences, FiniteSets, TLC

VARIABLES
    \* ---- Agent (agent.ts) ----
    history,        \* Agent.history: ChatMessage[]
    pc,             \* position of the one run() call: idle/inject/loop/awaiting/tools
    turn,           \* number of run() calls started so far
    maxRec,         \* run(): const maxRecursions
    iterations,     \* run(): let iterations
    finalContent,   \* run(): let finalContent
    lastRaw,        \* run(): let lastRaw (last provider response)
    modelCalls,     \* number of client.sendChat calls issued by the current run()
    curContent,     \* run(): content of the response being processed
    toolCalls,      \* run(): toolCalls of the response being processed
    exec,           \* executeToolCalls: per request, "running" or its ToolResult
    injected,       \* Agent.injectedMemories (a tag), and how the lookup settled
    runResult,      \* outcome of the last settled run(): none / returned / rejected
    \* ---- MemoryStore (memory-store.ts) ----
    db,               \* the 'memories' object store: id -> StoredMemory
    searchIndex,      \* MemoryStore.searchIndex: null or a Flexsearch index
    indexedMemories,  \* MemoryStore.indexedMemories: Map id -> StoredMemory
    indexInitialized, \* MemoryStore.indexInitialized
    now,              \* Date.now(), in days
    \* ---- cleanup_memories (memory-tools.ts) ----
    cleanup,          \* per execution of the tool: position and locals
    \* ---- concurrent first access (memory-store.ts) ----
    dbConn,           \* MemoryStore.db / dbPromise: closed, opening, open, failed
    indexInitPromise, \* MemoryStore.indexInitPromise: null, pending, fulfilled, rejected
    initRuns,         \* runs of the initialiser: awaiting getDB / in the cursor,
                      \* and the run whose promise close() has detached
    builds,           \* number of index builds begun (createSearchIndex + cursor)
    ops,              \* concurrent store()/search() calls: kind, position
    \* ---- chat component (src/unnamed/part_000) ----
    isResponding,     \* isResponding.value
    agentInstance,    \* agentInstance: 0 for null, else the Agent constructed n-th
    agentsMade,       \* number of Agents constructed so far
    hasApiKey,        \* the stored or default configuration has an apiKey
    chatError,        \* chatError.value (a tag for the text)
    sends,            \* sendMessage() calls: position and the Agent run() was called on
    \* ---- memory tools (memory-tools.ts) ----
    tool,             \* the execution of a memory tool: position, call, output
    \* ---- getRelevantMemories (memory-tools.ts) ----
    relevant,         \* one call: position, arguments, locals, return value
    \* ---- Agent construction (agent.ts) ----
    agentOptions,     \* the AgentOptions the constructor was called with
    toolRegistry,     \* Agent.toolRegistry: Map name -> Tool
    \* ---- history of the identifiers (no field of the program) ----
    assigned          \* the ids store() has given to a record so far

agentVars == <<history, pc, turn, maxRec, iterations, finalContent, lastRaw,
               modelCalls, curContent, toolCalls, exec, injected, runResult>>

storeVars == <<db, searchIndex, indexedMemories, indexInitialized, now>>

cleanupVars == <<cleanup>>

initVars == <<dbConn, indexInitPromise, initRuns, builds, ops>>

chatVars == <<isResponding, agentInstance, agentsMade, hasApiKey, chatError, sends>>

toolVars == <<tool>>

relevantVars == <<relevant>>

idVars == <<assigned>>

registryVars == <<agentOptions, toolRegistry>>

vars == <<agentVars, storeVars, cleanupVars, initVars, chatVars, toolVars, relevantVars, idVars, registryVars>>

\* what the actions of one subsystem leave alone
notAgent == <<storeVars, cleanupVars, initVars, chatVars, toolVars, relevantVars, idVars, registryVars>>
notStore == <<agentVars, cleanupVars, initVars, chatVars, toolVars, relevantVars, idVars, registryVars>>
notCleanup == <<agentVars, initVars, chatVars, toolVars, relevantVars, idVars, registryVars>>
notInit == <<agentVars, cleanupVars, chatVars, toolVars, relevantVars, idVars, registryVars>>
notChat == <<agentVars, storeVars, cleanupVars, initVars, toolVars, relevantVars, idVars, registryVars>>
notTool == <<agentVars, cleanupVars, initVars, chatVars, relevantVars, idVars, registryVars>>
notRelevant == <<agentVars, cleanupVars, initVars, chatVars, toolVars, idVars, registryVars>>
notIds == <<agentVars, cleanupVars, initVars, chatVars, toolVars, relevantVars, registryVars>>
notRegistry == <<agentVars, storeVars, cleanupVars, initVars, chatVars, toolVars, relevantVars, idVars>>

\* ------------------------------------------------------------------------
\* Bounds of the model
\* ------------------------------------------------------------------------
MaxTurns == 3            \* run() calls explored
MaxContextMessages == 1  \* AgentOptions.maxContextMessages used by the model
MaxRecursions == 2       \* largest AgentRunOptions.maxRecursions explored
MaxIds == 2              \* identifiers generateId() can return
MaxNow == 1              \* days the clock can advance
MaxAccess == 1           \* recordAccess calls explored per record
MaxRecords == 3          \* records in the database when cleanup_memories runs
MaxOps == 3              \* store()/search() calls in flight at once
MaxSends == 4            \* sendMessage() calls explored
MaxAgents == 2           \* Agents the chat component constructs

\* ------------------------------------------------------------------------
\* Numbers of the program
\* ------------------------------------------------------------------------
RecentLimit == 100           \* memoryStore.getRecent(100)
NormalizedPrefix == 50       \* .slice(0, 50)
ThirtyDays == 30             \* 30 * 24 * 60 * 60 * 1000 ms, in days
OutdatedAccessBelow == 3     \* memory.accessCount < 3
OutdatedImportanceMax == 4   \* memory.importance <= 4
LowImportanceMax == 2        \* memory.importance <= 2
LowImportanceAccessBelow == 2 \* memory.accessCount < 2

\* ------------------------------------------------------------------------
\* Generic helpers
\* ------------------------------------------------------------------------
Range(s) == {s[i] : i \in 1..Len(s)}

RemoveAt(s, i) == SubSeq(s, 1, i - 1) \o SubSeq(s, i + 1, Len(s))

Min(a, b) == IF a < b THEN a ELSE b
Max(a, b) == IF a > b THEN a ELSE b

\* ------------------------------------------------------------------------
\* Strings are sequences of characters, so that trim and join are computed.
\* ------------------------------------------------------------------------
Whitespace == {" ", "\n"}

RECURSIVE TrimLeft(_)
TrimLeft(s) ==
    IF s # <<>> /\ Head(s) \in Whitespace THEN TrimLeft(Tail(s)) ELSE s

RECURSIVE TrimRight(_)
TrimRight(s) ==
    IF s # <<>> /\ s[Len(s)] \in Whitespace
    THEN TrimRight(SubSeq(s, 1, Len(s) - 1)) ELSE s

\* String.prototype.trim
Trim(s) == TrimRight(TrimLeft(s))

\* Array.prototype.join('\n')
RECURSIVE JoinNL(_)
JoinNL(chunks) ==
    IF chunks = <<>> THEN <<>>
    ELSE IF Len(chunks) = 1 THEN chunks[1]
    ELSE chunks[1] \o <<"\n">> \o JoinNL(Tail(chunks))

\* ------------------------------------------------------------------------
\* Agent: messages
\* ------------------------------------------------------------------------
EmptyStr == <<>>

NoId == [t |-> 0, c |-> 0, i |-> 0]

\* A ChatMessage of Agent.history.  `turn` records the run() call that
\* appended the entry (the exchange it belongs to).
Entry(role, content, calls, callId, name, t) ==
    [role |-> role, content |-> content, tool_calls |-> calls,
     toolCallId |-> callId, name |-> name, turn |-> t]

UserInputs == {<<"h", "i">>}

\* memoryTools registered by the constructor (enableMemoryTools default)
ToolRegistry ==
    {"store_memory", "recall_memory", "forget_memory", "update_memory",
     "list_memories", "cleanup_memories"}

\* Provider responses explored: message = "missing" models a response
\* without choices[0].message; content is null, a string, or an array of
\* text chunks; tools are the function names of message.tool_calls and
\* args their function.arguments strings.
ArgsEmpty == <<>>                      \* ''
ArgsObject == <<"{", "q", "}">>        \* a JSON object with one key
ArgsTruncated == <<"{", "q">>          \* a JSON text cut short

ResponseMenu ==
    << [message |-> "missing", kind |-> "null", str |-> <<>>, arr |-> <<>>, tools |-> <<>>, args |-> <<>>],
       [message |-> "present", kind |-> "null", str |-> <<>>, arr |-> <<>>, tools |-> <<>>, args |-> <<>>],
       [message |-> "present", kind |-> "str", str |-> <<"a">>, arr |-> <<>>, tools |-> <<>>, args |-> <<>>],
       [message |-> "present", kind |-> "null", str |-> <<>>, arr |-> <<>>, tools |-> <<"store_memory">>,
        args |-> <<ArgsTruncated>>],
       [message |-> "present", kind |-> "arr", str |-> <<>>, arr |-> << <<" ">> >>, tools |-> <<"recall_memory", "get_weather">>,
        args |-> <<ArgsObject, ArgsTruncated>>],
       [message |-> "present", kind |-> "arr", str |-> <<>>, arr |-> << <<" ">>, <<"b">> >>, tools |-> <<"get_weather", "forget_memory">>,
        args |-> <<ArgsEmpty, ArgsObject>>] >>

\* The raw provider response built from a menu item: the model numbers its
\* tool calls, so every request carries its own id.
MkResponse(m, t, c) ==
    [message |-> m.message, kind |-> m.kind, str |-> m.str, arr |-> m.arr,
     tool_calls |-> [i \in 1..Len(m.tools) |->
                        [id |-> [t |-> t, c |-> c, i |-> i], name |-> m.tools[i],
                         arguments |-> m.args[i]]]]

\* the same response from a provider that leaves out the id of each tool
\* call (toolCall.id is undefined, which NoId stands for)
MkResponseWithoutIds(m, t, c) ==
    [MkResponse(m, t, c) EXCEPT
        !.tool_calls = [i \in 1..Len(m.tools) |-> [@[i] EXCEPT !.id = NoId]]]

\* the id '' (an empty string)
EmptyId == [t |-> 0, c |-> 0, i |-> -1]

\* the same response from a provider that sends '' as the id of each tool call
MkResponseWithEmptyIds(m, t, c) ==
    [MkResponse(m, t, c) EXCEPT
        !.tool_calls = [i \in 1..Len(m.tools) |-> [@[i] EXCEPT !.id = EmptyId]]]

NoRaw == [message |-> "none", kind |-> "null", str |-> <<>>, arr |-> <<>>, tool_calls |-> <<>>]

\* normalizeAssistantMessage: content
NormalizeContent(message) ==
    IF message.kind = "arr" THEN Trim(JoinNL(message.arr))
    ELSE IF message.kind = "str" THEN message.str
    ELSE EmptyStr

\* JSON.parse on the texts explored: an object is an opening brace, its
\* keys and a closing brace; anything else is a SyntaxError
JsonIsObject(text) ==
    /\ Len(text) >= 2
    /\ text[1] = "{"
    /\ text[Len(text)] = "}"
    /\ \A i \in 2..(Len(text) - 1) : text[i] \notin {"{", "}"}

JsonKeys(text) == {text[i] : i \in 2..(Len(text) - 1)}

\* an arguments object: its keys, and the value of its `raw` key if any
ArgsValue(keys, raw) == [keys |-> keys, raw |-> raw]

\* mutant of ParseErrorArgs: the SyntaxError is not caught
ParseErrorThrown(text) == ArgsValue({"thrown"}, text)

\* the catch block: { error: 'Failed to parse tool arguments', raw }
ParseErrorArgs(text) == ArgsValue({"error", "raw"}, text)

\* parsedArgs of one raw tool call
ParseArguments(text) ==
    IF text = EmptyStr THEN ArgsValue({}, EmptyStr)
    ELSE IF JsonIsObject(text) THEN ArgsValue(JsonKeys(text), EmptyStr)
    ELSE ParseErrorArgs(text)

\* normalizeAssistantMessage: toolCalls (ToolCallRequest[])
NormalizeToolCalls(message) ==
    [i \in 1..Len(message.tool_calls) |->
        [id |-> message.tool_calls[i].id, name |-> message.tool_calls[i].name,
         arguments |-> ParseArguments(message.tool_calls[i].arguments)]]

normalizeAssistantMessage(message) ==
    [content |-> NormalizeContent(message),
     toolCalls |-> NormalizeToolCalls(message),
     rawToolCalls |-> message.tool_calls]

\* ------------------------------------------------------------------------
\* Agent.trimHistory
\* ------------------------------------------------------------------------
IsConversation(m) == m.role = "user" \/ m.role = "assistant"

ConversationCount(h) == Cardinality({i \in 1..Len(h) : IsConversation(h[i])})

\* first index whose role is not system; the first position when none is
FirstNonSystemIdx(h) ==
    IF \E i \in 1..Len(h) : h[i].role # "system"
    THEN CHOOSE i \in 1..Len(h) :
            /\ h[i].role # "system"
            /\ \A j \in 1..(i - 1) : h[j].role = "system"
    ELSE 1

\* the while loop of trimHistory
RECURSIVE TrimLoop(_, _, _, _)
TrimLoop(h, i, removed, messagesToRemove) ==
    IF removed < messagesToRemove /\ i <= Len(h)
    THEN IF IsConversation(h[i])
         THEN TrimLoop(RemoveAt(h, i), i, removed + 1, messagesToRemove)
         ELSE IF h[i].role = "tool"
         THEN TrimLoop(RemoveAt(h, i), i, removed, messagesToRemove)
         ELSE TrimLoop(h, i + 1, removed, messagesToRemove)
    ELSE h

trimHistory(h) ==
    LET turns == ConversationCount(h) \div 2
    IN  IF turns <= MaxContextMessages THEN h
        ELSE TrimLoop(h, FirstNonSystemIdx(h), 0, (turns - MaxContextMessages) * 2)

\* ------------------------------------------------------------------------
\* Agent.executeToolCalls
\* ------------------------------------------------------------------------
\* the promise of one tool call: still running, or settled with its result
NotInvoked == ArgsValue({"not invoked"}, EmptyStr)

\* `invokedWith` is the argument object tool.execute was called with
StartExecution(toolCall) ==
    IF toolCall.name \notin ToolRegistry
    THEN [state |-> "done", name |-> toolCall.name, success |-> FALSE,
          toolCallId |-> toolCall.id, invokedWith |-> NotInvoked]
    ELSE [state |-> "running", name |-> toolCall.name, success |-> FALSE,
          toolCallId |-> toolCall.id, invokedWith |-> toolCall.arguments]

\* `${seed || 'tool'}_${Date.now().toString(36)}_${random}` (lines 558-561):
\* a string that no id of the provider equals; `random` stands for the time
\* and the random suffix
generateToolCallId(seed, random) == [t |-> -1, c |-> 0, i |-> random]

\* const toolCallId = toolCall.id ?? this.generateToolCallId(toolCall.name)
ToolCallIdOf(toolCall, random) ==
    IF toolCall.id = NoId THEN generateToolCallId(toolCall.name, random)
    ELSE toolCall.id

executeToolCalls(calls) ==
    [i \in 1..Len(calls) |->
        [StartExecution(calls[i]) EXCEPT !.toolCallId = ToolCallIdOf(calls[i], i)]]

ToolOutcomes == {"success", "failure", "throws"}

\* mutant of SettleExecution: a thrown error is not turned into a failure
SettleThrowUncaught(e, outcome) ==
    [e EXCEPT !.state = "done", !.success = (outcome # "failure")]

\* the result a registered tool's promise settles with
SettleExecution(e, outcome) ==
    [e EXCEPT !.state = "done", !.success = (outcome = "success")]

\* mutant of AllSettled: the first settled promise releases the join
AnySettled(ex) == ex = <<>> \/ \E i \in 1..Len(ex) : ex[i].state = "done"

\* Promise.all(executions) has resolved
AllSettled(ex) == \A i \in 1..Len(ex) : ex[i].state = "done"

\* the tool entry pushed for one ToolResult
ToolEntry(result, t) ==
    Entry("tool", <<"r">>, <<>>, result.toolCallId, result.name, t)

ToolEntries(ex, t) == [i \in 1..Len(ex) |-> ToolEntry(ex[i], t)]

\* ------------------------------------------------------------------------
\* Agent.run
\* ------------------------------------------------------------------------
\* AgentRunOptions: every run() is given its maxRecursions
RunOptions == {[maxRecursions |-> n] : n \in 0..MaxRecursions}

NoResult == [status |-> "none", content |-> EmptyStr, raw |-> NoRaw]

AgentIdle ==
    /\ history = <<>>
    /\ pc = "idle"
    /\ turn = 0
    /\ maxRec = 0
    /\ iterations = 0
    /\ finalContent = EmptyStr
    /\ lastRaw = NoRaw
    /\ modelCalls = 0
    /\ curContent = EmptyStr
    /\ toolCalls = <<>>
    /\ exec = <<>>
    /\ injected = [memories |-> "empty", lookup |-> "none"]
    /\ runResult = NoResult

\* run(): trimHistory, push the user turn, set up the locals (lines 356-365)
Run(userInput, options) ==
    /\ pc = "idle"
    /\ UNCHANGED notAgent
    /\ turn < MaxTurns
    /\ turn' = turn + 1
    /\ history' = Append(trimHistory(history),
                         Entry("user", userInput, <<>>, NoId, "", turn + 1))
    /\ maxRec' = options.maxRecursions
    /\ iterations' = 0
    /\ finalContent' = EmptyStr
    /\ lastRaw' = NoRaw
    /\ modelCalls' = 0
    /\ curContent' = EmptyStr
    /\ toolCalls' = <<>>
    /\ exec' = <<>>
    /\ runResult' = NoResult
    /\ pc' = "inject"
    /\ UNCHANGED injected

\* mutant of LookupCaught: the await is not inside a try block
LookupUncaught(outcome) == outcome # "error"

\* run(): the try/catch around await getRelevantMemories (lines 369-378)
\* covers every way the lookup can settle
LookupCaught(outcome) == TRUE

\* run(): await getRelevantMemories, failure degrades to [] (lines 367-378)
InjectMemories(outcome) ==
    /\ pc = "inject"
    /\ UNCHANGED notAgent
    /\ IF LookupCaught(outcome)
       THEN /\ injected' =
                  [memories |-> IF outcome = "memories" THEN "memories" ELSE "empty",
                   lookup |-> IF outcome = "error" THEN "rejected" ELSE "resolved"]
            /\ pc' = "loop"
            /\ UNCHANGED runResult
       ELSE /\ injected' = [injected EXCEPT !.lookup = "rejected"]
            /\ runResult' = [status |-> "rejected", content |-> EmptyStr, raw |-> lastRaw]
            /\ pc' = "idle"
    /\ UNCHANGED <<history, turn, maxRec, iterations, finalContent, lastRaw,
                   modelCalls, curContent, toolCalls, exec>>

\* mutant of LoopCondition: the loop is while (true)
LoopConditionAlways(it, mr) == TRUE

\* mutant of LoopCondition: the bound is off by one
LoopConditionOffByOne(it, mr) == it <= mr

\* run(): while (iterations < maxRecursions)
LoopCondition(it, mr) == it < mr

\* run(): isAllMemoryTools (lines 475-477)
MemoryToolNames ==
    {"store_memory", "recall_memory", "forget_memory", "update_memory",
     "list_memories", "cleanup_memories"}

IsAllMemoryTools(calls) == \A i \in 1..Len(calls) : calls[i].name \in MemoryToolNames

\* mutant of BreakAfterTools: only the memory-tools test ends the loop
BreakOnlyForMemoryTools(content, calls) ==
    content # EmptyStr /\ IsAllMemoryTools(calls)

\* run(): the two break tests after the tool results (lines 480-489)
BreakAfterTools(content, calls) ==
    \/ content # EmptyStr /\ IsAllMemoryTools(calls)
    \/ content # EmptyStr

\* run(): loop condition true, client.sendChat is called (lines 391-402)
SendChat ==
    /\ pc = "loop"
    /\ UNCHANGED notAgent
    /\ LoopCondition(iterations, maxRec)
    /\ modelCalls' = modelCalls + 1
    /\ pc' = "awaiting"
    /\ UNCHANGED <<history, turn, maxRec, iterations, finalContent, lastRaw,
                   curContent, toolCalls, exec, injected, runResult>>

\* run(): loop condition false, return (lines 391, 510-513)
ReturnExhausted ==
    /\ pc = "loop"
    /\ UNCHANGED notAgent
    /\ ~LoopCondition(iterations, maxRec)
    /\ runResult' = [status |-> "returned", content |-> finalContent, raw |-> lastRaw]
    /\ pc' = "idle"
    /\ UNCHANGED <<history, turn, maxRec, iterations, finalContent, lastRaw,
                   modelCalls, curContent, toolCalls, exec, injected>>

\* client.sendChat rejects: run() rejects (line 398)
SendChatRejects ==
    /\ pc = "awaiting"
    /\ UNCHANGED notAgent
    /\ runResult' = [status |-> "rejected", content |-> EmptyStr, raw |-> lastRaw]
    /\ pc' = "idle"
    /\ UNCHANGED <<history, turn, maxRec, iterations, finalContent, lastRaw,
                   modelCalls, curContent, toolCalls, exec, injected>>

\* mutant of MissingAssistantMessage: the test is left out
MissingMessageIgnored(response) == FALSE

\* run(): if (!assistantMessage), with response?.choices?.[0]?.message
\* (lines 409-410)
MissingAssistantMessage(response) == response.message = "missing"

\* mutant of HasContent: the assistant entry is pushed whatever the content
ContentNotTested(content) == TRUE

\* run(): if (content) (line 498)
HasContent(content) == content # EmptyStr

\* run(): a response arrives (lines 403-440 and 497-507)
ReceiveResponse(response) ==
    /\ pc = "awaiting"
    /\ UNCHANGED notAgent
    /\ lastRaw' = response
    /\ IF MissingAssistantMessage(response)
       THEN \* throw new Error('OpenRouter response missing assistant message.')
            /\ runResult' = [status |-> "rejected", content |-> EmptyStr, raw |-> response]
            /\ pc' = "idle"
            /\ UNCHANGED <<history, finalContent, curContent, toolCalls, exec>>
       ELSE LET n == normalizeAssistantMessage(response)
            IN  IF Len(n.toolCalls) > 0
                THEN /\ history' = Append(history,
                            Entry("assistant", n.content,
                                  [i \in 1..Len(n.rawToolCalls) |-> n.rawToolCalls[i].id],
                                  NoId, "", turn))
                     /\ curContent' = n.content
                     /\ toolCalls' = n.toolCalls
                     /\ exec' = executeToolCalls(n.toolCalls)
                     /\ pc' = "tools"
                     /\ UNCHANGED <<finalContent, runResult>>
                ELSE /\ IF HasContent(n.content)
                        THEN /\ history' = Append(history,
                                    Entry("assistant", n.content, <<>>, NoId, "", turn))
                             /\ finalContent' = n.content
                        ELSE UNCHANGED <<history, finalContent>>
                     /\ runResult' = [status |-> "returned",
                                      content |-> finalContent', raw |-> response]
                     /\ pc' = "idle"
                     /\ UNCHANGED <<curContent, toolCalls, exec>>
    /\ UNCHANGED <<turn, maxRec, iterations, modelCalls, injected>>

\* executeToolCalls: one registered tool's execute settles (lines 530-552)
ToolFinish(i, outcome) ==
    /\ pc = "tools"
    /\ UNCHANGED notAgent
    /\ i \in 1..Len(exec)
    /\ exec[i].state = "running"
    /\ exec' = [exec EXCEPT ![i] = SettleExecution(exec[i], outcome)]
    /\ UNCHANGED <<history, pc, turn, maxRec, iterations, finalContent, lastRaw,
                   modelCalls, curContent, toolCalls, injected, runResult>>

\* toolCallId values a tool may put into the ToolResult it returns:
\* undefined, '' and a string of its own
OwnId == [t |-> -2, c |-> 0, i |-> 0]
ReturnedToolCallIds == {NoId, EmptyId, OwnId}

\* toolCallId: output.toolCallId ?? toolCallId (line 543)
ResultToolCallId(returned, toolCallId) ==
    IF returned = NoId THEN toolCallId ELSE returned

\* executeToolCalls: a registered tool's execute resolves with a ToolResult
\* that carries `returned` as its toolCallId (lines 530-544)
ToolReturns(i, returned) ==
    /\ pc = "tools"
    /\ UNCHANGED notAgent
    /\ i \in 1..Len(exec)
    /\ exec[i].state = "running"
    /\ exec' = [exec EXCEPT ![i] =
                   [SettleExecution(exec[i], "success") EXCEPT
                       !.toolCallId = ResultToolCallId(returned, exec[i].toolCallId)]]
    /\ UNCHANGED <<history, pc, turn, maxRec, iterations, finalContent, lastRaw,
                   modelCalls, curContent, toolCalls, injected, runResult>>

\* run(): Promise.all resolved, results pushed, loop decision (lines 440-495)
ToolsJoin ==
    /\ pc = "tools"
    /\ UNCHANGED notAgent
    /\ AllSettled(exec)
    /\ history' = history \o ToolEntries(exec, turn)
    /\ finalContent' = IF curContent # EmptyStr THEN curContent ELSE finalContent
    /\ IF BreakAfterTools(curContent, toolCalls)
       THEN /\ runResult' = [status |-> "returned", content |-> finalContent',
                              raw |-> lastRaw]
            /\ pc' = "idle"
            /\ UNCHANGED iterations
       ELSE /\ iterations' = iterations + 1
            /\ pc' = "loop"
            /\ UNCHANGED runResult
    /\ UNCHANGED <<turn, maxRec, lastRaw, modelCalls, curContent, toolCalls,
                   exec, injected>>

AgentNext ==
    \/ \E u \in UserInputs, o \in RunOptions : Run(u, o)
    \/ \E outcome \in {"memories", "empty", "error"} : InjectMemories(outcome)
    \/ SendChat
    \/ ReturnExhausted
    \/ SendChatRejects
    \/ \E k \in 1..Len(ResponseMenu) :
          ReceiveResponse(MkResponse(ResponseMenu[k], turn, modelCalls))
    \/ \E i \in 1..Len(exec), outcome \in ToolOutcomes : ToolFinish(i, outcome)
    \/ ToolsJoin

\* ========================================================================
\* MemoryStore (src/src/lib/memory-store.ts, first version, lines 1-680)
\* ========================================================================
\* Text is a sequence of characters.  Han stands for the range
\* [一-龥]; "U+732B" and "U+5FD8" are two such characters.
Han == {"U+732B", "U+5FD8"}
Alnum == {"a", "b", "A", "B"}

LowerChar(c) == IF c = "A" THEN "a" ELSE IF c = "B" THEN "b" ELSE c

\* String.prototype.toLowerCase
ToLower(s) == [i \in 1..Len(s) |-> LowerChar(s[i])]

\* String.prototype.includes
Includes(s, sub) ==
    \E i \in 0..(Len(s) - Len(sub)) : SubSeq(s, i + 1, i + Len(sub)) = sub

\* [...new Set(tokens)]: duplicates removed, first occurrences kept in order
RECURSIVE Dedup(_)
Dedup(s) ==
    IF s = <<>> THEN <<>>
    ELSE LET rest == Dedup(SubSeq(s, 1, Len(s) - 1))
             last == s[Len(s)]
         IN IF last \in Range(rest) THEN rest ELSE Append(rest, last)

\* chineseTokenizer, the character loop: Han characters are tokens of their
\* own, runs of [a-zA-Z0-9] of length >= 2 are lower-cased tokens.  On the
\* texts of this model (single Han characters, ASCII words separated by
\* non-word characters) the Intl.Segmenter branch yields the same tokens.
RECURSIVE TokenScan(_, _, _, _)
TokenScan(text, i, englishBuffer, tokens) ==
    LET flushed == IF Len(englishBuffer) >= 2
                   THEN Append(tokens, ToLower(englishBuffer))
                   ELSE tokens
    IN IF i > Len(text) THEN flushed
       ELSE IF text[i] \in Han
            THEN TokenScan(text, i + 1, <<>>, Append(flushed, <<text[i]>>))
       ELSE IF text[i] \in Alnum
            THEN TokenScan(text, i + 1, Append(englishBuffer, text[i]), tokens)
       ELSE TokenScan(text, i + 1, <<>>, flushed)

chineseTokenizer(text) == Dedup(TokenScan(text, 1, <<>>, <<>>))

extractKeywords(content) == chineseTokenizer(content)

\* ---- finite maps (IndexedDB object store, Map, Flexsearch register) ----
EmptyMap == [x \in {} |-> x]
Put(f, k, v) == [x \in (DOMAIN f) \cup {k} |-> IF x = k THEN v ELSE f[x]]
Drop(f, k) == [x \in (DOMAIN f) \ {k} |-> f[x]]

\* ---- inputs explored ----
Ids == 1..MaxIds
Categories == {"fact", "preference", "event", "correction", "context"}
TextAb == <<"A", "b">>
TextAbMao == <<"a", "b", " ", "U+732B">>
\* arguments of store(content, category, importance)
StoreArgs(content, category, importance) ==
    [content |-> content, category |-> category, importance |-> importance]

StoreMenu ==
    << StoreArgs(TextAb, "fact", 0),
       StoreArgs(TextAbMao, "context", 11),
       StoreArgs(TextAbMao, "fact", 5) >>

Queries == {<<"a", "b">>, <<"U+732B">>, <<" ">>}
Limits == 0..MaxIds

\* Partial<Pick<StoredMemory, 'content'|'importance'|'category'|'isValid'>>:
\* `fields` are the keys that are not undefined
Updates(fields, content, importance, category, isValid) ==
    [fields |-> fields, content |-> content, importance |-> importance,
     category |-> category, isValid |-> isValid]

UpdateMenu ==
    << Updates({"content"}, TextAbMao, 0, "fact", 1),
       Updates({"content", "importance"}, TextAb, 11, "fact", 1),
       Updates({"category", "importance"}, <<>>, 0, "context", 1),
       Updates({"isValid"}, <<>>, 0, "fact", 0),
       Updates({"isValid"}, <<>>, 0, "fact", 1),
       Updates({"content", "isValid"}, TextAbMao, 0, "fact", 0),
       Updates({"importance"}, <<>>, 11, "fact", 1),
       Updates({"content"}, TextAb, 0, "fact", 1) >>

\* ---- Flexsearch Index (library): register of id -> indexed tokens ----
NullIndex == [exists |-> FALSE, docs |-> EmptyMap]

createSearchIndex == [exists |-> TRUE, docs |-> EmptyMap]

IndexAdd(index, id, content) ==
    [index EXCEPT !.docs = Put(index.docs, id, chineseTokenizer(content))]

IndexRemove(index, id) == [index EXCEPT !.docs = Drop(index.docs, id)]

\* documents containing every token of the query
IndexMatches(index, query) ==
    LET q == Range(chineseTokenizer(query))
    IN {id \in DOMAIN index.docs : q # {} /\ q \subseteq Range(index.docs[id])}

\* Index.search(query, {limit}): at most `limit` matching ids; the ranking
\* is the library's, so every order is possible
IndexSearch(index, query, limit) ==
    LET M == IndexMatches(index, query)
        n == Min(limit, Cardinality(M))
    IN {r \in [1..n -> M] : \A i, j \in 1..n : i # j => r[i] # r[j]}

\* ---- the singleton's in-memory fields (lines 129-131) ----
This ==
    [searchIndex |-> searchIndex, indexedMemories |-> indexedMemories,
     indexInitialized |-> indexInitialized]

\* initSearchIndex: nothing when already initialised, otherwise a fresh index
\* and cache filled from the records whose isValid key is 1
initSearchIndex(this, d) ==
    IF this.indexInitialized THEN this
    ELSE LET valid == {id \in DOMAIN d : d[id].isValid = 1}
         IN [searchIndex |->
                [exists |-> TRUE,
                 docs |-> [id \in valid |-> chineseTokenizer(d[id].content)]],
             indexedMemories |-> [id \in valid |-> d[id]],
             indexInitialized |-> TRUE]

addToSearchIndex(this, memory) ==
    IF this.searchIndex.exists /\ memory.isValid = 1
    THEN [this EXCEPT
            !.searchIndex = IndexAdd(this.searchIndex, memory.id, memory.content),
            !.indexedMemories = Put(this.indexedMemories, memory.id, memory)]
    ELSE this

\* mutant of removeFromSearchIndex: the index and the cache keep the record
removeFromSearchIndexSkipped(this, id) == this

removeFromSearchIndex(this, id) ==
    IF this.searchIndex.exists
    THEN [this EXCEPT
            !.searchIndex = IndexRemove(this.searchIndex, id),
            !.indexedMemories = Drop(this.indexedMemories, id)]
    ELSE this

\* mutant of ClampImportance: only the lower bound is applied
ClampBelowOnly(importance) == Max(1, importance)

\* mutant of ClampImportance: only the upper bound is applied
ClampAboveOnly(importance) == Min(10, importance)

\* Math.max(1, Math.min(10, importance))
ClampImportance(importance) == Max(1, Min(10, importance))

SetThis(this) ==
    /\ searchIndex' = this.searchIndex
    /\ indexedMemories' = this.indexedMemories
    /\ indexInitialized' = this.indexInitialized

\* ---- executions of cleanup_memories: none has started ----
NoOutput == [success |-> FALSE, removed |-> 0, dryRun |-> FALSE, details |-> <<>>]

IdleCall ==
    [pc |-> "idle", strategy |-> "all", dryRun |-> FALSE, allMemories |-> <<>>,
     at |-> 0, toRemove |-> <<>>, next |-> 0, output |-> NoOutput]

\* two executions of the tool may be in flight at once (executeToolCalls
\* starts every requested tool before awaiting any): call 1 is given
\* dryRun = true, call 2 dryRun = false
CallIds == {1, 2}

DryRunArg == [c \in CallIds |-> c = 1]

CleanupIdle == cleanup = [c \in CallIds |-> IdleCall]

\* ---- no store()/search() call in flight, database connection closed ----
OpIds == 1..MaxOps

IdleOp == [kind |-> "none", pc |-> "idle", awaits |-> "nothing"]

InitIdle ==
    /\ dbConn = "closed"
    /\ indexInitPromise = "null"
    /\ initRuns = [awaitingDB |-> 0, inCursor |-> 0, detached |-> "none"]
    /\ builds = 0
    /\ ops = [p \in OpIds |-> IdleOp]

\* ---- memory tools: no execution in progress ----
IdleTool ==
    [pc |-> "idle", call |-> 0, output |-> "none", storeCalls |-> <<>>,
     memories |-> <<>>, content |-> <<>>, isValid |-> 1]

ToolIdle == tool = IdleTool

\* ---- getRelevantMemories: not called ----
IdleRelevant ==
    [pc |-> "idle", context |-> <<>>, limit |-> 0, candidates |-> <<>>,
     directResults |-> <<>>, expandedTerms |-> <<>>, next |-> 0,
     termResults |-> <<>>, importantMemories |-> <<>>,
     settled |-> "pending", returned |-> <<>>]

RelevantIdle == relevant = IdleRelevant

\* ---- no id has been given to a record ----
NoneAssigned == assigned = {}

\* ---- Agent construction and tool registration (agent.ts 104-134) ----
\* a Tool: its name, and `impl` telling the implementations apart
Tool(name, impl) == [name |-> name, impl |-> impl]

\* memoryTools (memory-tools.ts 563-570), in the order of the array
memoryTools ==
    << Tool("store_memory", "memory"), Tool("recall_memory", "memory"),
       Tool("forget_memory", "memory"), Tool("update_memory", "memory"),
       Tool("list_memories", "memory"), Tool("cleanup_memories", "memory") >>

\* mutant of registerTool: a later registration replaces the earlier one
registerToolLastWins(registry, t) == Put(registry, t.name, t)

\* registerTool(tool): the registry after the call
registerTool(registry, t) ==
    IF t.name \in DOMAIN registry
    THEN registry
    ELSE Put(registry, t.name, t)

\* options.tools?.forEach(tool => this.registerTool(tool))
RECURSIVE RegisterEach(_, _)
RegisterEach(registry, tools) ==
    IF tools = <<>> THEN registry
    ELSE RegisterEach(registerTool(registry, Head(tools)), Tail(tools))

\* memoryTools.forEach(tool => { if (!has(tool.name)) registerTool(tool) })
RECURSIVE RegisterMissing(_, _)
RegisterMissing(registry, tools) ==
    IF tools = <<>> THEN registry
    ELSE RegisterMissing(IF Head(tools).name \notin DOMAIN registry
                         THEN registerTool(registry, Head(tools))
                         ELSE registry,
                         Tail(tools))

\* AgentOptions: tools (<<>> when undefined) and enableMemoryTools
\* ("undefined", "true" or "false")
AgentOptions(tools, enableMemoryTools) ==
    [tools |-> tools, enableMemoryTools |-> enableMemoryTools]

\* the registry the constructor leaves
constructor(options) ==
    LET own == RegisterEach(EmptyMap, options.tools)
    IN IF options.enableMemoryTools # "false"   \* !== false
       THEN RegisterMissing(own, memoryTools)
       ELSE own

NoOptions == [tools |-> <<>>, enableMemoryTools |-> "none"]
DefaultOptions == AgentOptions(<<>>, "undefined")

\* no Agent has been constructed
NotConstructed == agentOptions = NoOptions /\ toolRegistry = EmptyMap

\* the Agent of the other subsystems: constructed with the memory tools
AgentConstructed ==
    agentOptions = DefaultOptions /\ toolRegistry = constructor(DefaultOptions)

\* ---- chat component: nothing sent, no Agent constructed yet ----
SendIds == 1..MaxSends

IdleSend == [pc |-> "idle", agent |-> 0]

ChatIdle ==
    /\ isResponding = FALSE
    /\ agentInstance = 0
    /\ agentsMade = 0
    /\ hasApiKey = TRUE
    /\ chatError = "none"
    /\ sends = [c \in SendIds |-> IdleSend]

StoreEmpty ==
    /\ db = EmptyMap
    /\ searchIndex = NullIndex
    /\ indexedMemories = EmptyMap
    /\ indexInitialized = FALSE
    /\ now = 0

\* store(content, category, importance): the effect on the database and
\* the index; `id` is what generateId() returns.  objectStore.add rejects a
\* key that is already present.
store(content, category, importance, id) ==
    LET this == initSearchIndex(This, db)
        memory == [id |-> id,
                   content |-> content,
                   category |-> category,
                   importance |-> ClampImportance(importance),
                   keywords |-> extractKeywords(content),
                   createdAt |-> now,
                   lastAccessedAt |-> now,
                   accessCount |-> 0,
                   isValid |-> 1]
    IN /\ IF id \in DOMAIN db
          THEN /\ SetThis(this)
               /\ UNCHANGED db
          ELSE /\ db' = Put(db, id, memory)
               /\ SetThis(addToSearchIndex(this, memory))

Store(content, category, importance, id) ==
    /\ UNCHANGED notStore
    /\ store(content, category, importance, id)
    /\ UNCHANGED now

\* search(): its only effect on the store is the lazy initialisation
Search ==
    /\ UNCHANGED notStore
    /\ SetThis(initSearchIndex(This, db))
    /\ UNCHANGED <<db, now>>

RecordAccess(id) ==
    /\ UNCHANGED notStore
    /\ id \in DOMAIN db => db[id].accessCount < MaxAccess
    /\ IF id \in DOMAIN db
       THEN LET memory == [db[id] EXCEPT !.lastAccessedAt = now,
                                         !.accessCount = @ + 1]
            IN /\ db' = Put(db, id, memory)
               /\ indexedMemories' =
                     IF id \in DOMAIN indexedMemories
                     THEN Put(indexedMemories, id, memory)
                     ELSE indexedMemories
       ELSE UNCHANGED <<db, indexedMemories>>
    /\ UNCHANGED <<searchIndex, indexInitialized, now>>

\* mutant of invalidated: the validity flag is flipped
invalidatedFlips(d, this, id) ==
    IF id \in DOMAIN d
    THEN [db |-> Put(d, id, [d[id] EXCEPT !.isValid = 1 - @]),
          this |-> removeFromSearchIndex(this, id)]
    ELSE [db |-> d, this |-> this]

\* invalidate(id), lines 496-509: the database and the index it leaves, from
\* the database d and the index `this` it finds
invalidated(d, this, id) ==
    IF id \in DOMAIN d
    THEN [db |-> Put(d, id, [d[id] EXCEPT !.isValid = 0]),
          this |-> removeFromSearchIndex(this, id)]
    ELSE [db |-> d, this |-> this]

\* invalidate(id): the effect on the database and the index
invalidate(id) ==
    LET after == invalidated(db, This, id)
    IN /\ db' = after.db
       /\ SetThis(after.this)

Invalidate(id) ==
    /\ UNCHANGED notStore
    /\ invalidate(id)
    /\ UNCHANGED now

Delete(id) ==
    /\ UNCHANGED notStore
    /\ db' = Drop(db, id)
    /\ SetThis(removeFromSearchIndex(This, id))
    /\ UNCHANGED now

\* mutant of update: the record is also marked as accessed
updateTouchingAccess(id, updates) ==
    /\ db' = IF id \in DOMAIN db
             THEN Put(db, id, [db[id] EXCEPT
                                 !.importance = ClampImportance(updates.importance),
                                 !.lastAccessedAt = now])
             ELSE db
    /\ UNCHANGED <<searchIndex, indexedMemories, indexInitialized>>

\* update(id, updates): the effect on the database and the index
update(id, updates) ==
    /\ IF id \in DOMAIN db
       THEN LET old == db[id]
                contentChanged == /\ "content" \in updates.fields
                                  /\ updates.content # old.content
                m1 == IF "content" \in updates.fields
                      THEN [old EXCEPT !.content = updates.content,
                                       !.keywords = extractKeywords(updates.content)]
                      ELSE old
                m2 == IF "importance" \in updates.fields
                      THEN [m1 EXCEPT !.importance = ClampImportance(updates.importance)]
                      ELSE m1
                m3 == IF "category" \in updates.fields
                      THEN [m2 EXCEPT !.category = updates.category]
                      ELSE m2
                memory == IF "isValid" \in updates.fields
                          THEN [m3 EXCEPT !.isValid = updates.isValid]
                          ELSE m3
                removed == IndexRemove(searchIndex, id)
            IN /\ db' = Put(db, id, memory)
               /\ searchIndex' =
                     IF contentChanged /\ searchIndex.exists
                     THEN IF memory.isValid = 1
                          THEN IndexAdd(removed, id, memory.content)
                          ELSE removed
                     ELSE searchIndex
               /\ indexedMemories' =
                     IF memory.isValid = 1
                     THEN Put(indexedMemories, id, memory)
                     ELSE Drop(indexedMemories, id)
       ELSE UNCHANGED <<db, searchIndex, indexedMemories>>
    /\ UNCHANGED indexInitialized

Update(id, updates) ==
    /\ UNCHANGED notStore
    /\ update(id, updates)
    /\ UNCHANGED now

ClearAll ==
    /\ UNCHANGED notStore
    /\ db' = EmptyMap
    /\ searchIndex' = createSearchIndex
    /\ indexedMemories' = EmptyMap
    /\ UNCHANGED <<indexInitialized, now>>

\* close(): the in-memory index is dropped, the database keeps its records
Close ==
    /\ UNCHANGED notStore
    /\ searchIndex' = NullIndex
    /\ indexedMemories' = EmptyMap
    /\ indexInitialized' = FALSE
    /\ UNCHANGED <<db, now>>

\* Date.now() advances (one unit = one day)
Tick ==
    /\ UNCHANGED notStore
    /\ now < MaxNow
    /\ now' = now + 1
    /\ UNCHANGED <<db, searchIndex, indexedMemories, indexInitialized>>

StoreNext ==
    \/ \E k \in 1..Len(StoreMenu), id \in Ids :
          Store(StoreMenu[k].content, StoreMenu[k].category,
                StoreMenu[k].importance, id)
    \/ Search
    \/ \E id \in Ids : RecordAccess(id)
    \/ \E id \in Ids : Invalidate(id)
    \/ \E id \in Ids : Delete(id)
    \/ \E id \in Ids, k \in 1..Len(UpdateMenu) : Update(id, UpdateMenu[k])
    \/ ClearAll
    \/ Close
    \/ Tick

\* ---- read operations (no effect on the records) ----
NoMemory == [id |-> 0]

\* an index cursor opened with direction 'prev' over the records S: descending
\* index key, ties in descending primary key (key: id -> index key)
RECURSIVE CursorPrev(_, _)
CursorPrev(S, key) ==
    IF S = {} THEN <<>>
    ELSE LET first == CHOOSE x \in S :
                         \A y \in S : \/ key[x] > key[y]
                                       \/ (key[x] = key[y] /\ x >= y)
         IN <<first>> \o CursorPrev(S \ {first}, key)

\* the cursor loop shared by getByCategory, getMostImportant and getRecent:
\* advance while results.length < limit, keep the records with isValid = 1
RECURSIVE CursorLoop(_, _, _, _)
CursorLoop(order, i, results, limit) ==
    IF i <= Len(order) /\ Len(results) < limit
    THEN CursorLoop(order, i + 1,
                    IF db[order[i]].isValid = 1
                    THEN Append(results, db[order[i]])
                    ELSE results,
                    limit)
    ELSE results

getByCategory(category, limit) ==
    LET S == {id \in DOMAIN db : db[id].category = category}
    IN CursorLoop(CursorPrev(S, [id \in S |-> 0]), 1, <<>>, limit)

getMostImportant(limit) ==
    CursorLoop(CursorPrev(DOMAIN db, [id \in DOMAIN db |-> db[id].importance]),
               1, <<>>, limit)

getRecent(limit) ==
    CursorLoop(CursorPrev(DOMAIN db, [id \in DOMAIN db |-> db[id].createdAt]),
               1, <<>>, limit)

\* index('isValid').count(IDBKeyRange.only(1))
getCount == Cardinality({id \in DOMAIN db : db[id].isValid = 1})

getById(id) == IF id \in DOMAIN db THEN db[id] ELSE NoMemory

\* search(), lines 320-348: score the ranked ids found in the cache
RelevanceScore(memory, rank, query) ==
    (100 - rank * 5)
    + (IF Includes(ToLower(memory.content), ToLower(query)) THEN 30 ELSE 0)
    + memory.importance * 3
    + (IF now - memory.lastAccessedAt < 7
       THEN 7 - (now - memory.lastAccessedAt) ELSE 0)

RECURSIVE SearchLoop(_, _, _, _, _)
SearchLoop(cache, query, searchResults, i, results) ==
    IF i > Len(searchResults) THEN results
    ELSE LET memoryId == searchResults[i]
             hit == memoryId \in DOMAIN cache /\ cache[memoryId].isValid = 1
         IN SearchLoop(cache, query, searchResults, i + 1,
               IF hit
               THEN Append(results,
                       [memory |-> cache[memoryId],
                        relevanceScore |-> RelevanceScore(cache[memoryId], i - 1, query)])
               ELSE results)

\* results.sort((a, b) => b.relevanceScore - a.relevanceScore), stable
RECURSIVE SortByRelevance(_)
SortByRelevance(s) ==
    IF s = <<>> THEN <<>>
    ELSE LET sorted == SortByRelevance(SubSeq(s, 1, Len(s) - 1))
             x == s[Len(s)]
             k == Cardinality({i \in 1..Len(sorted) :
                                 sorted[i].relevanceScore >= x.relevanceScore})
         IN SubSeq(sorted, 1, k) \o <<x>> \o SubSeq(sorted, k + 1, Len(sorted))

\* search(), lines 313-352, on the index and cache `this` that
\* initSearchIndex() left: the possible return values (one per ranking the
\* index may produce)
searchWith(this, query, limit) ==
    IF ~this.searchIndex.exists \/ Trim(query) = <<>>
    THEN {<<>>}
    ELSE {LET sorted == SortByRelevance(
                           SearchLoop(this.indexedMemories, query, r, 1, <<>>))
          IN SubSeq(sorted, 1, Min(limit, Len(sorted)))
          : r \in IndexSearch(this.searchIndex, query, limit * 2)}

\* search(query, limit): the possible return values in the current state
search(query, limit) == searchWith(initSearchIndex(This, db), query, limit)

\* ---- the index-free MemoryStore (second class of memory-store.ts) ----
\* content.toLowerCase().replace(/[^<Han>a-zA-Z0-9\s]/g, ' ').split(/\s+/)
\* .filter(word => word.length >= 2)
RECURSIVE WordScan(_, _, _, _)
WordScan(text, i, word, words) ==
    LET flushed == IF Len(word) >= 2 THEN Append(words, word) ELSE words
    IN IF i > Len(text) THEN flushed
       ELSE IF text[i] \in Han \cup Alnum
            THEN WordScan(text, i + 1, Append(word, LowerChar(text[i])), words)
       ELSE WordScan(text, i + 1, <<>>, flushed)

\* extractKeywords of the index-free class (lines 789-799)
extractKeywordsIndexFree(content) == Dedup(WordScan(content, 1, <<>>, <<>>))

\* lines 856-880: the score of one valid record; its keywords are those the
\* index-free store() and update() derive from its content
IndexFreeScore(memory, query) ==
    LET queryKeywords == extractKeywordsIndexFree(query)
        keywords == extractKeywordsIndexFree(memory.content)
        matchingKeywords ==
            SelectSeq(queryKeywords,
                      LAMBDA kw : \E m \in 1..Len(keywords) :
                                     \/ Includes(keywords[m], kw)
                                     \/ Includes(kw, keywords[m]))
    IN (IF Includes(ToLower(memory.content), ToLower(query)) THEN 50 ELSE 0)
       + Len(matchingKeywords) * 10
       + memory.importance * 2
       + (IF now - memory.lastAccessedAt < 7
          THEN 7 - (now - memory.lastAccessedAt) ELSE 0)

\* the cursor over index('isValid') with key 1, in ascending primary key:
\* a record is kept when its score is positive (lines 850-885)
RECURSIVE IndexFreeLoop(_, _, _)
IndexFreeLoop(S, query, results) ==
    IF S = {} THEN results
    ELSE LET id == CHOOSE x \in S : \A y \in S : x <= y
             relevanceScore == IndexFreeScore(db[id], query)
         IN IndexFreeLoop(S \ {id}, query,
               IF relevanceScore > 0
               THEN Append(results, [memory |-> db[id],
                                     relevanceScore |-> relevanceScore])
               ELSE results)

\* search(query, limit) of the index-free class (lines 838-895)
searchIndexFree(query, limit) ==
    LET sorted == SortByRelevance(
                     IndexFreeLoop({id \in DOMAIN db : db[id].isValid = 1}, query, <<>>))
    IN SubSeq(sorted, 1, Min(limit, Len(sorted)))

\* ========================================================================
\* cleanup_memories (src/src/lib/memory-tools.ts, lines 444-557)
\* ========================================================================
\* memory.content.toLowerCase().replace(/[^一-龥a-zA-Z0-9]/g, '').slice(0, 50)
NormalizeForCompare(content) ==
    LET kept == SelectSeq(ToLower(content), LAMBDA ch : ch \in Han \cup Alnum)
    IN SubSeq(kept, 1, Min(NormalizedPrefix, Len(kept)))

\* the keys of contentMap, in insertion order
ContentKeys(allMemories) ==
    Dedup([i \in 1..Len(allMemories) |-> NormalizeForCompare(allMemories[i].content)])

\* contentMap.get(key): the analysed records with that normalized content
ContentGroup(allMemories, key) ==
    SelectSeq(allMemories, LAMBDA m : NormalizeForCompare(m.content) = key)

\* mutant of SortByImportance: the group stays in getRecent order
Unsorted(memories) == memories

\* memories.sort((a, b) => b.importance - a.importance), stable
RECURSIVE SortByImportance(_)
SortByImportance(memories) ==
    IF memories = <<>> THEN <<>>
    ELSE LET sorted == SortByImportance(SubSeq(memories, 1, Len(memories) - 1))
             x == memories[Len(memories)]
             k == Cardinality({i \in 1..Len(sorted) : sorted[i].importance >= x.importance})
         IN SubSeq(sorted, 1, k) \o <<x>> \o SubSeq(sorted, k + 1, Len(sorted))

Flag(memory, reason) == [id |-> memory.id, reason |-> reason]

\* lines 469-481: every group of more than one record keeps its first record
\* after the sort and flags the rest
RECURSIVE MarkDuplicates(_, _, _, _)
MarkDuplicates(allMemories, keys, g, toRemove) ==
    IF g > Len(keys) THEN toRemove
    ELSE LET memories == SortByImportance(ContentGroup(allMemories, keys[g]))
             rest == [i \in 1..(Len(memories) - 1) |-> Flag(memories[i + 1], "duplicate")]
         IN MarkDuplicates(allMemories, keys, g + 1,
                           IF Len(memories) > 1 THEN toRemove \o rest ELSE toRemove)

\* mutant of AlreadyFlagged: the test before a record is flagged is left out
NeverFlagged(toRemove, memory) == FALSE

AlreadyFlagged(toRemove, memory) ==
    \E i \in 1..Len(toRemove) : toRemove[i].id = memory.id

IsOutdated(memory, at) ==
    /\ memory.createdAt < at - ThirtyDays
    /\ memory.accessCount < OutdatedAccessBelow
    /\ memory.importance <= OutdatedImportanceMax
    /\ memory.category # "fact"

IsLowImportance(memory) ==
    /\ memory.importance <= LowImportanceMax
    /\ memory.accessCount < LowImportanceAccessBelow
    /\ memory.category = "context"

\* lines 489-506
RECURSIVE MarkOutdated(_, _, _, _)
MarkOutdated(allMemories, i, toRemove, at) ==
    IF i > Len(allMemories) THEN toRemove
    ELSE MarkOutdated(allMemories, i + 1,
            IF ~AlreadyFlagged(toRemove, allMemories[i]) /\ IsOutdated(allMemories[i], at)
            THEN Append(toRemove, Flag(allMemories[i], "outdated"))
            ELSE toRemove,
            at)

\* lines 511-526
RECURSIVE MarkLowImportance(_, _, _)
MarkLowImportance(allMemories, i, toRemove) ==
    IF i > Len(allMemories) THEN toRemove
    ELSE MarkLowImportance(allMemories, i + 1,
            IF ~AlreadyFlagged(toRemove, allMemories[i]) /\ IsLowImportance(allMemories[i])
            THEN Append(toRemove, Flag(allMemories[i], "low_importance"))
            ELSE toRemove)

Strategies == {"duplicates", "outdated", "low_importance", "all"}

\* lines 449-527: the flagged list, from the analysed records, the strategy
\* and the clock
Analyze(strategy, allMemories, at) ==
    LET d == IF strategy \in {"duplicates", "all"}
             THEN MarkDuplicates(allMemories, ContentKeys(allMemories), 1, <<>>)
             ELSE <<>>
        o == IF strategy \in {"outdated", "all"}
             THEN MarkOutdated(allMemories, 1, d, at)
             ELSE d
    IN IF strategy \in {"low_importance", "all"}
       THEN MarkLowImportance(allMemories, 1, o)
       ELSE o

\* mutant of ExecutesCleanup: dryRun is ignored
ExecutesAlways(dryRun, toRemove) == Len(toRemove) > 0

\* line 530: if (!dryRun && toRemove.length > 0)
ExecutesCleanup(dryRun, toRemove) == ~dryRun /\ Len(toRemove) > 0

\* mutant of LoopFinished: the last flagged record is skipped
LoopEndsEarly(next, toRemove) == next >= Len(toRemove)

\* the for-of loop of lines 531-533 is over once every item was awaited
LoopFinished(next, toRemove) == next > Len(toRemove)

CleanupOutput(dryRun, toRemove) ==
    [success |-> TRUE, removed |-> Len(toRemove), dryRun |-> dryRun,
     details |-> toRemove]

\* records found in the database when the session starts, on day
\* ThirtyDays + 1: created on day 0 (older than thirty days) or on day 1
\* (exactly thirty days old)
Shape(content, category, importance, accessCount, createdAt) ==
    [content |-> content, category |-> category, importance |-> importance,
     accessCount |-> accessCount, createdAt |-> createdAt]

ShapeMenu ==
    << Shape(<<"A", "b">>, "fact", 5, 0, 0),
       Shape(<<"a", " ", "b", "!">>, "context", 9, 3, 0),
       Shape(<<"a", "b">>, "event", 3, 0, 0),
       Shape(<<"U+732B">>, "context", 2, 1, 1),
       Shape(<<"a", "b">>, "context", 1, 0, 0) >>

Persisted(id, shape) ==
    [id |-> id,
     content |-> shape.content,
     category |-> shape.category,
     importance |-> shape.importance,
     keywords |-> extractKeywords(shape.content),
     createdAt |-> shape.createdAt,
     lastAccessedAt |-> shape.createdAt,
     accessCount |-> shape.accessCount,
     isValid |-> 1]

RecordIds == 1..MaxRecords

CleanupInit ==
    /\ AgentIdle
    /\ \E S \in SUBSET RecordIds : \E f \in [S -> 1..Len(ShapeMenu)] :
          db = [id \in S |-> Persisted(id, ShapeMenu[f[id]])]
    /\ searchIndex = NullIndex
    /\ indexedMemories = EmptyMap
    /\ indexInitialized = FALSE
    /\ now = ThirtyDays + 1
    /\ CleanupIdle
    /\ InitIdle
    /\ ChatIdle
    /\ ToolIdle
    /\ RelevantIdle /\ NoneAssigned /\ AgentConstructed

\* execute(args): up to the await of memoryStore.getRecent(100)
CleanupStart(c, strategy, dryRun) ==
    /\ cleanup[c].pc = "idle"
    /\ cleanup' = [cleanup EXCEPT ![c] =
                      [@ EXCEPT !.pc = "reading", !.strategy = strategy,
                                !.dryRun = dryRun]]
    /\ UNCHANGED <<storeVars, notCleanup>>

\* getRecent resolves; the flagged list is computed; a dry run (or an empty
\* list) returns at once
CleanupAnalyze(c) ==
    /\ cleanup[c].pc = "reading"
    /\ LET allMemories == getRecent(RecentLimit)
           toRemove == Analyze(cleanup[c].strategy, allMemories, now)
           call == [cleanup[c] EXCEPT !.allMemories = allMemories, !.at = now,
                                      !.toRemove = toRemove]
       IN cleanup' = [cleanup EXCEPT ![c] =
             IF ExecutesCleanup(call.dryRun, toRemove)
             THEN [call EXCEPT !.pc = "invalidating", !.next = 1]
             ELSE [call EXCEPT !.pc = "done",
                               !.output = CleanupOutput(call.dryRun, toRemove)]]
    /\ UNCHANGED <<storeVars, notCleanup>>

\* one `await memoryStore.invalidate(item.id)` of the loop; after the last
\* one the tool returns
CleanupInvalidate(c) ==
    /\ cleanup[c].pc = "invalidating"
    /\ LET call == cleanup[c]
       IN /\ invalidate(call.toRemove[call.next].id)
          /\ cleanup' = [cleanup EXCEPT ![c] =
                IF LoopFinished(call.next + 1, call.toRemove)
                THEN [call EXCEPT !.pc = "done", !.next = @ + 1,
                                  !.output = CleanupOutput(call.dryRun, call.toRemove)]
                ELSE [call EXCEPT !.next = @ + 1]]
    /\ UNCHANGED <<now, notCleanup>>

\* getRecent or invalidate rejects: the catch block reports the failure
CleanupFails(c) ==
    /\ cleanup[c].pc \in {"reading", "invalidating"}
    /\ cleanup' = [cleanup EXCEPT ![c] =
                      [IdleCall EXCEPT !.pc = "done", !.strategy = cleanup[c].strategy,
                                       !.dryRun = cleanup[c].dryRun]]
    /\ UNCHANGED <<storeVars, notCleanup>>

CleanupNext ==
    \/ \E c \in CallIds, s \in Strategies : CleanupStart(c, s, DryRunArg[c])
    \/ \E c \in CallIds : CleanupAnalyze(c)
    \/ \E c \in CallIds : CleanupInvalidate(c)
    \/ \E c \in CallIds : CleanupFails(c)

SpecCleanup == CleanupInit /\ [][CleanupNext]_vars

\* ========================================================================
\* Concurrent first access to the search index
\* (src/src/lib/memory-store.ts: getDB 134-189, initSearchIndex 194-230,
\*  store 271-305, search 310-353)
\* ========================================================================
\* getDB(): the first call opens the database, later calls share dbPromise
getDBCall == IF dbConn = "closed" THEN "opening" ELSE dbConn

\* mutant of InitAlreadyStarted: a pending initialisation is not shared
InitNeverShared(promise) == FALSE

\* line 196: if (this.indexInitPromise) return this.indexInitPromise
InitAlreadyStarted(promise) == promise # "null"

\* a call of initSearchIndex(), up to its return (lines 195-199, 229):
\* what the caller awaits, and the run of the initialiser it may start
initSearchIndexCall(p, kind) ==
    IF indexInitialized
    THEN /\ ops' = [ops EXCEPT ![p] = [kind |-> kind, pc |-> "awaitInit", awaits |-> "nothing"]]
         /\ UNCHANGED <<indexInitPromise, initRuns, dbConn>>
    ELSE IF InitAlreadyStarted(indexInitPromise)
    THEN /\ ops' = [ops EXCEPT ![p] = [kind |-> kind, pc |-> "awaitInit", awaits |-> "promise"]]
         /\ UNCHANGED <<indexInitPromise, initRuns, dbConn>>
    ELSE /\ ops' = [ops EXCEPT ![p] = [kind |-> kind, pc |-> "awaitInit", awaits |-> "promise"]]
         /\ indexInitPromise' = "pending"
         /\ initRuns' = [initRuns EXCEPT !.awaitingDB = @ + 1]
         /\ dbConn' = getDBCall

\* store(): const db = await this.getDB()
StoreBegins(p) ==
    /\ ops[p].pc = "idle"
    /\ ops' = [ops EXCEPT ![p] = [kind |-> "store", pc |-> "awaitDB", awaits |-> "db"]]
    /\ dbConn' = getDBCall
    /\ UNCHANGED <<indexInitPromise, initRuns, builds, storeVars, notInit>>

\* store(): getDB has resolved; await this.initSearchIndex()
StoreCallsInit(p) ==
    /\ ops[p].pc = "awaitDB"
    /\ dbConn = "open"
    /\ initSearchIndexCall(p, "store")
    /\ UNCHANGED <<builds, storeVars, notInit>>

\* search(): await this.initSearchIndex()
SearchBegins(p) ==
    /\ ops[p].pc = "idle"
    /\ initSearchIndexCall(p, "search")
    /\ UNCHANGED <<builds, storeVars, notInit>>

\* indexedDB.open succeeds (request.onsuccess)
DbOpens ==
    /\ dbConn = "opening"
    /\ dbConn' = "open"
    /\ UNCHANGED <<indexInitPromise, initRuns, builds, ops, storeVars, notInit>>

\* indexedDB.open fails (request.onerror): dbPromise stays rejected
DbOpenFails ==
    /\ dbConn = "opening"
    /\ dbConn' = "failed"
    /\ UNCHANGED <<indexInitPromise, initRuns, builds, ops, storeVars, notInit>>

\* the initialiser after `await this.getDB()`: a new index, an empty cache,
\* and the cursor over the valid records is opened (lines 200-207)
BuildStarts ==
    /\ initRuns.awaitingDB > 0
    /\ dbConn = "open"
    /\ initRuns' = [initRuns EXCEPT !.awaitingDB = @ - 1, !.inCursor = @ + 1]
    /\ builds' = builds + 1
    /\ searchIndex' = createSearchIndex
    /\ indexedMemories' = EmptyMap
    /\ UNCHANGED <<db, indexInitialized, now, dbConn, indexInitPromise, ops, notInit>>

\* the cursor has delivered every valid record (lines 209-223)
BuildCompletes ==
    /\ initRuns.inCursor > 0
    /\ initRuns' = [initRuns EXCEPT !.inCursor = @ - 1]
    /\ LET valid == {id \in DOMAIN db : db[id].isValid = 1}
       IN /\ searchIndex' =
                [exists |-> TRUE,
                 docs |-> [id \in (DOMAIN searchIndex.docs) \cup valid |->
                             IF id \in valid THEN chineseTokenizer(db[id].content)
                             ELSE searchIndex.docs[id]]]
          /\ indexedMemories' =
                [id \in (DOMAIN indexedMemories) \cup valid |->
                    IF id \in valid THEN db[id] ELSE indexedMemories[id]]
    /\ indexInitialized' = TRUE
    /\ indexInitPromise' = "fulfilled"
    /\ UNCHANGED <<db, now, dbConn, builds, ops, notInit>>

\* the initialiser rejects: getDB rejected, or the cursor request failed
BuildFails ==
    /\ \/ /\ initRuns.awaitingDB > 0
          /\ dbConn = "failed"
          /\ initRuns' = [initRuns EXCEPT !.awaitingDB = @ - 1]
       \/ /\ initRuns.inCursor > 0
          /\ initRuns' = [initRuns EXCEPT !.inCursor = @ - 1]
    /\ indexInitPromise' = "rejected"
    /\ UNCHANGED <<storeVars, dbConn, builds, ops, notInit>>

Settled(p) ==
    \/ ops[p].awaits = "nothing"
    \/ ops[p].awaits = "promise" /\ indexInitPromise \in {"fulfilled", "rejected"}

\* store() after the await: objectStore.add and addToSearchIndex
StoreCompletes(p, args, id) ==
    /\ ops[p].pc = "awaitInit" /\ ops[p].kind = "store"
    /\ Settled(p)
    /\ ~(ops[p].awaits = "promise" /\ indexInitPromise = "rejected")
    /\ LET memory == [id |-> id,
                      content |-> args.content,
                      category |-> args.category,
                      importance |-> ClampImportance(args.importance),
                      keywords |-> extractKeywords(args.content),
                      createdAt |-> now,
                      lastAccessedAt |-> now,
                      accessCount |-> 0,
                      isValid |-> 1]
       IN IF id \in DOMAIN db
          THEN /\ ops' = [ops EXCEPT ![p].pc = "rejected"]
               /\ UNCHANGED <<db, searchIndex, indexedMemories>>
          ELSE /\ ops' = [ops EXCEPT ![p].pc = "done"]
               /\ db' = Put(db, id, memory)
               /\ SetThis(addToSearchIndex(This, memory))
    /\ UNCHANGED <<indexInitialized, now, dbConn, indexInitPromise, initRuns, builds, notInit>>

\* search() after the await: it reads the index and returns
SearchCompletes(p) ==
    /\ ops[p].pc = "awaitInit" /\ ops[p].kind = "search"
    /\ Settled(p)
    /\ ~(ops[p].awaits = "promise" /\ indexInitPromise = "rejected")
    /\ ops' = [ops EXCEPT ![p].pc = "done"]
    /\ UNCHANGED <<storeVars, dbConn, indexInitPromise, initRuns, builds, notInit>>

\* an operation rejects: getDB rejected, or the awaited initialisation did
OpRejects(p) ==
    /\ \/ ops[p].pc = "awaitDB" /\ dbConn = "failed"
       \/ ops[p].pc = "awaitInit" /\ ops[p].awaits = "promise"
                                  /\ indexInitPromise = "rejected"
    /\ ops' = [ops EXCEPT ![p].pc = "rejected"]
    /\ UNCHANGED <<storeVars, dbConn, indexInitPromise, initRuns, builds, notInit>>

\* the database of an earlier session: empty, or one record, valid or not
InitInit ==
    /\ AgentIdle
    /\ CleanupIdle
    /\ InitIdle
    /\ ChatIdle
    /\ ToolIdle
    /\ RelevantIdle /\ NoneAssigned /\ AgentConstructed
    /\ \E d \in {EmptyMap,
                 [id \in {1} |-> Persisted(1, ShapeMenu[1])],
                 [id \in {1} |-> [Persisted(1, ShapeMenu[1]) EXCEPT !.isValid = 0]]} :
          db = d
    /\ searchIndex = NullIndex
    /\ indexedMemories = EmptyMap
    /\ indexInitialized = FALSE
    /\ now = 0

InitNext ==
    \/ \E p \in OpIds : StoreBegins(p)
    \/ \E p \in OpIds : StoreCallsInit(p)
    \/ \E p \in OpIds : SearchBegins(p)
    \/ DbOpens
    \/ DbOpenFails
    \/ BuildStarts
    \/ BuildCompletes
    \/ BuildFails
    \/ \E p \in OpIds, id \in Ids : StoreCompletes(p, StoreMenu[2], id)
    \/ \E p \in OpIds : SearchCompletes(p)
    \/ \E p \in OpIds : OpRejects(p)

SpecInit == InitInit /\ [][InitNext]_vars

\* ------------------------------------------------------------------------
\* close() among the operations (memory-store.ts 666-676)
\* ------------------------------------------------------------------------
\* The calls close() is made among: no call holds a database handle it has
\* not used yet, and a call that awaits the initialisation awaits a run that
\* is reading the cursor or that can only reject.
CloseCallable ==
    /\ initRuns.detached # "inCursor"
    /\ \A p \in OpIds :
          /\ ops[p].pc = "awaitDB" => dbConn \in {"opening", "failed"}
          /\ ops[p].pc = "awaitInit" =>
                /\ ops[p].awaits = "promise"
                /\ indexInitPromise \in {"pending", "rejected"}
    /\ initRuns.awaitingDB > 0 => dbConn = "failed"

\* close(): the connection is dropped only when this.db is set, so a
\* rejected dbPromise stays; the index fields are reset.  The run of the
\* initialiser that is under way goes on, its promise is no longer
\* this.indexInitPromise, and the calls awaiting it still await it.
CloseCall ==
    /\ CloseCallable
    /\ dbConn' = IF dbConn = "open" THEN "closed" ELSE dbConn
    /\ searchIndex' = NullIndex
    /\ indexedMemories' = EmptyMap
    /\ indexInitialized' = FALSE
    /\ indexInitPromise' = "null"
    /\ ops' = [p \in OpIds |->
                 IF ops[p].pc = "awaitInit"
                 THEN [ops[p] EXCEPT !.awaits = "detached"]
                 ELSE ops[p]]
    /\ initRuns' = [awaitingDB |-> 0, inCursor |-> 0,
                    detached |-> IF initRuns.inCursor > 0 THEN "inCursor"
                                 ELSE IF indexInitPromise \in {"pending", "rejected"}
                                 THEN "rejected"
                                 ELSE initRuns.detached]
    /\ UNCHANGED <<db, now, builds, notInit>>

\* the cursor of the detached run has delivered every valid record (lines
\* 209-223): this.searchIndex!.add throws when close() has set the index to
\* null and there is a record, and then the promise never settles; otherwise
\* the records go into the index that is there and indexInitialized is set
DetachedCompletes ==
    /\ initRuns.detached = "inCursor"
    /\ LET valid == {id \in DOMAIN db : db[id].isValid = 1}
       IN IF ~searchIndex.exists /\ valid # {}
          THEN /\ initRuns' = [initRuns EXCEPT !.detached = "stuck"]
               /\ UNCHANGED <<searchIndex, indexedMemories, indexInitialized>>
          ELSE /\ initRuns' = [initRuns EXCEPT !.detached = "fulfilled"]
               /\ searchIndex' =
                     [searchIndex EXCEPT
                        !.docs = [id \in (DOMAIN searchIndex.docs) \cup valid |->
                                    IF id \in valid THEN chineseTokenizer(db[id].content)
                                    ELSE searchIndex.docs[id]]]
               /\ indexedMemories' =
                     [id \in (DOMAIN indexedMemories) \cup valid |->
                         IF id \in valid THEN db[id] ELSE indexedMemories[id]]
               /\ indexInitialized' = TRUE
    /\ UNCHANGED <<db, now, dbConn, indexInitPromise, builds, ops, notInit>>

\* the cursor request of the detached run fails (line 225)
DetachedFails ==
    /\ initRuns.detached = "inCursor"
    /\ initRuns' = [initRuns EXCEPT !.detached = "rejected"]
    /\ UNCHANGED <<storeVars, dbConn, indexInitPromise, builds, ops, notInit>>

\* a call that awaited the detached promise goes on: a search reads
\* this.searchIndex and returns; a store opens a transaction on the handle
\* close() has closed, which throws
DetachedSettles(p) ==
    /\ ops[p].pc = "awaitInit" /\ ops[p].awaits = "detached"
    /\ initRuns.detached \in {"fulfilled", "rejected"}
    /\ ops' = [ops EXCEPT ![p].pc =
                   IF initRuns.detached = "fulfilled" /\ ops[p].kind = "search"
                   THEN "done" ELSE "rejected"]
    /\ UNCHANGED <<storeVars, dbConn, indexInitPromise, initRuns, builds, notInit>>

OpenInit == InitInit

OpenNext ==
    \/ \E p \in OpIds : StoreBegins(p)
    \/ \E p \in OpIds : StoreCallsInit(p)
    \/ \E p \in OpIds : SearchBegins(p)
    \/ DbOpens
    \/ DbOpenFails
    \/ BuildStarts
    \/ BuildCompletes
    \/ BuildFails
    \/ \E p \in OpIds, id \in Ids : StoreCompletes(p, StoreMenu[2], id)
    \/ \E p \in OpIds : SearchCompletes(p)
    \/ \E p \in OpIds : OpRejects(p)
    \/ CloseCall
    \/ DetachedCompletes
    \/ DetachedFails
    \/ \E p \in OpIds : DetachedSettles(p)

SpecOpen == OpenInit /\ [][OpenNext]_vars

StoreInit == StoreEmpty /\ AgentIdle /\ CleanupIdle /\ InitIdle /\ ChatIdle /\ ToolIdle
             /\ RelevantIdle /\ NoneAssigned /\ AgentConstructed

SpecStore == StoreInit /\ [][StoreNext]_vars

\* ------------------------------------------------------------------------
\* the store with the ids it has given out recorded
\* ------------------------------------------------------------------------
\* store(): when the record is created, its id is one that has been assigned
StoreAssigns(content, category, importance, id) ==
    /\ UNCHANGED notIds
    /\ store(content, category, importance, id)
    /\ assigned' = IF id \in DOMAIN db THEN assigned ELSE assigned \cup {id}
    /\ UNCHANGED now

IdsInit == StoreInit

IdsNext ==
    \/ \E k \in 1..Len(StoreMenu), id \in Ids :
          StoreAssigns(StoreMenu[k].content, StoreMenu[k].category,
                       StoreMenu[k].importance, id)
    \/ \E id \in Ids, k \in 1..Len(UpdateMenu) : Update(id, UpdateMenu[k])
    \/ \E id \in Ids : Invalidate(id)
    \/ \E id \in Ids : Delete(id)
    \/ Tick

SpecIds == IdsInit /\ [][IdsNext]_vars

\* ------------------------------------------------------------------------
\* construction of an Agent and later registerTool calls
\* ------------------------------------------------------------------------
\* tools a caller provides: names of memory tools and a name of its own,
\* each in two implementations
CallerTools ==
    {Tool(name, impl) : name \in {"store_memory", "recall_memory", "weather"},
                        impl \in {"callerA", "callerB"}}

MaxTools == 2            \* length of options.tools explored

ToolLists == UNION {[1..n -> CallerTools] : n \in 0..MaxTools}

\* new Agent(options)
Construct(options) ==
    /\ UNCHANGED notRegistry
    /\ agentOptions = NoOptions
    /\ agentOptions' = options
    /\ toolRegistry' = constructor(options)

\* agent.registerTool(tool) on the constructed Agent
RegisterTool(t) ==
    /\ UNCHANGED notRegistry
    /\ agentOptions # NoOptions
    /\ toolRegistry' = registerTool(toolRegistry, t)
    /\ UNCHANGED agentOptions

RegistryInit ==
    /\ NotConstructed
    /\ AgentIdle /\ StoreEmpty /\ CleanupIdle /\ InitIdle /\ ChatIdle /\ ToolIdle
    /\ RelevantIdle /\ NoneAssigned

RegistryNext ==
    \/ \E tools \in ToolLists, enableMemoryTools \in {"undefined", "true", "false"} :
          Construct(AgentOptions(tools, enableMemoryTools))
    \/ \E t \in CallerTools : RegisterTool(t)

SpecRegistry == RegistryInit /\ [][RegistryNext]_vars

\* ------------------------------------------------------------------------
\* store() and update() over a wider range of arguments
\* ------------------------------------------------------------------------
\* a category argument that is undefined
MissingCategory == "undefined"

\* arguments of store(): every category, importance below, inside and above
\* [1,10], an empty content, a missing category, an unknown category
InputMenu ==
    << StoreArgs(TextAb, "fact", -1),
       StoreArgs(TextAb, "preference", 0),
       StoreArgs(TextAbMao, "event", 10),
       StoreArgs(TextAbMao, "correction", 11),
       StoreArgs(TextAb, "context", 4),
       StoreArgs(EmptyStr, "fact", 5),
       StoreArgs(TextAb, MissingCategory, 5),
       StoreArgs(TextAb, "mood", 5) >>

\* importance arguments of update()
ImportanceInputs == {-3, 0, 7, 12}

InputsInit == StoreInit

InputsNext ==
    \/ \E k \in 1..Len(InputMenu), id \in Ids :
          Store(InputMenu[k].content, InputMenu[k].category,
                InputMenu[k].importance, id)
    \/ \E id \in Ids, n \in ImportanceInputs :
          Update(id, Updates({"importance"}, <<>>, n, "fact", 1))
    \/ \E id \in Ids : Invalidate(id)
    \/ \E id \in Ids : Delete(id)

SpecInputs == InputsInit /\ [][InputsNext]_vars

AgentInit == AgentIdle /\ StoreEmpty /\ CleanupIdle /\ InitIdle /\ ChatIdle /\ ToolIdle
             /\ RelevantIdle /\ NoneAssigned /\ AgentConstructed

SpecAgent == AgentInit /\ [][AgentNext]_vars

\* the same Agent with a provider that may leave out the ids of the tool
\* calls of a response
OmittedInit == AgentInit

OmittedNext ==
    \/ \E u \in UserInputs, o \in RunOptions : Run(u, o)
    \/ \E outcome \in {"memories", "empty", "error"} : InjectMemories(outcome)
    \/ SendChat
    \/ ReturnExhausted
    \/ SendChatRejects
    \/ \E k \in 1..Len(ResponseMenu) :
          ReceiveResponse(MkResponse(ResponseMenu[k], turn, modelCalls))
    \/ \E k \in 1..Len(ResponseMenu) :
          ReceiveResponse(MkResponseWithoutIds(ResponseMenu[k], turn, modelCalls))
    \/ \E i \in 1..Len(exec), outcome \in ToolOutcomes : ToolFinish(i, outcome)
    \/ ToolsJoin

SpecOmitted == OmittedInit /\ [][OmittedNext]_vars

\* the same Agent with every tool-call id a provider may send (a string, ''
\* or none) and every toolCallId a tool may return
ToolIdsInit == AgentInit

MaxIdTurns == 1          \* run() calls explored with every kind of id

ToolIdsNext ==
    \/ \E u \in UserInputs, o \in RunOptions : turn < MaxIdTurns /\ Run(u, o)
    \/ \E outcome \in {"memories", "empty", "error"} : InjectMemories(outcome)
    \/ SendChat
    \/ ReturnExhausted
    \/ SendChatRejects
    \/ \E k \in 1..Len(ResponseMenu) :
          ReceiveResponse(MkResponse(ResponseMenu[k], turn, modelCalls))
    \/ \E k \in 1..Len(ResponseMenu) :
          ReceiveResponse(MkResponseWithoutIds(ResponseMenu[k], turn, modelCalls))
    \/ \E k \in 1..Len(ResponseMenu) :
          ReceiveResponse(MkResponseWithEmptyIds(ResponseMenu[k], turn, modelCalls))
    \/ \E i \in 1..Len(exec), outcome \in ToolOutcomes : ToolFinish(i, outcome)
    \/ \E i \in 1..Len(exec), returned \in ReturnedToolCallIds : ToolReturns(i, returned)
    \/ ToolsJoin

SpecToolIds == ToolIdsInit /\ [][ToolIdsNext]_vars

\* ------------------------------------------------------------------------
\* run() when every call it awaits completes
\* ------------------------------------------------------------------------
\* chat-completion calls explored in one run(); a run() makes at most
\* maxRecursions of them
MaxCalls == MaxRecursions + 1
MaxRunCalls == 1         \* run() calls explored for termination

TerminationInit == AgentInit

\* await getRelevantMemories settles
LookupSettles == \E outcome \in {"memories", "empty", "error"} : InjectMemories(outcome)

\* the test of the while loop is evaluated
LoopStep == (modelCalls < MaxCalls /\ SendChat) \/ ReturnExhausted

\* await this.client.sendChat settles
ChatSettles ==
    \/ SendChatRejects
    \/ \E k \in 1..Len(ResponseMenu) :
          ReceiveResponse(MkResponse(ResponseMenu[k], turn, modelCalls))

\* the execute of one tool settles
ToolSettles == \E i \in 1..Len(exec), outcome \in ToolOutcomes : ToolFinish(i, outcome)

TerminationNext ==
    \/ \E u \in UserInputs, o \in RunOptions : turn < MaxRunCalls /\ Run(u, o)
    \/ \E outcome \in {"memories", "empty", "error"} : InjectMemories(outcome)
    \/ modelCalls < MaxCalls /\ SendChat
    \/ ReturnExhausted
    \/ SendChatRejects
    \/ \E k \in 1..Len(ResponseMenu) :
          ReceiveResponse(MkResponse(ResponseMenu[k], turn, modelCalls))
    \/ \E i \in 1..Len(exec), outcome \in ToolOutcomes : ToolFinish(i, outcome)
    \/ ToolsJoin

\* Every promise run() awaits settles and the continuation of an await runs
\* once the promise has settled; nothing obliges the host to call run().
SpecTermination ==
    /\ TerminationInit
    /\ [][TerminationNext]_vars
    /\ WF_vars(LookupSettles)
    /\ WF_vars(LoopStep)
    /\ WF_vars(ChatSettles)
    /\ WF_vars(ToolSettles)
    /\ WF_vars(ToolsJoin)

\* ------------------------------------------------------------------------
\* Chat component (src/unnamed/part_000): sendMessage and the Agent it uses
\* ------------------------------------------------------------------------
\* texts handed to sendMessage by the input box and the suggestion buttons
SendTexts == {EmptyStr, <<" ">>, <<"h", "i">>, <<" ", "h", "i", "\n">>}

\* ensureAgent() when the apiKey is present: constructs the Agent if
\* agentInstance is null, and returns agentInstance
ensureAgent ==
    IF agentInstance = 0
    THEN [agentInstance |-> agentsMade + 1, agentsMade |-> agentsMade + 1]
    ELSE [agentInstance |-> agentInstance, agentsMade |-> agentsMade]

\* mutant of SendGuard: the in-progress flag is not consulted
SendGuardIgnoresFlag(trimmed, responding) == trimmed = EmptyStr

\* sendMessage: if (!trimmed || isResponding.value) return
SendGuard(trimmed, responding) == trimmed = EmptyStr \/ responding

\* the sendMessage calls happen in the order of their numbers
NextSend(c) ==
    /\ sends[c].pc = "idle"
    /\ \A d \in SendIds : d < c => sends[d].pc # "idle"

\* sendMessage(text) up to its first await: the guard, ensureAgent(), the
\* push of the user's message, isResponding = true, the call of agent.run
SendMessage(c, text) ==
    /\ NextSend(c)
    /\ UNCHANGED notChat
    /\ LET trimmed == Trim(text) IN
        IF SendGuard(trimmed, isResponding)
        THEN /\ sends' = [sends EXCEPT ![c].pc = "returned"]
             /\ UNCHANGED <<isResponding, agentInstance, agentsMade, hasApiKey,
                            chatError>>
        ELSE IF ~hasApiKey
        THEN \* ensureAgent throws, sendMessage returns
             /\ chatError' = "missing key"
             /\ sends' = [sends EXCEPT ![c].pc = "returned"]
             /\ UNCHANGED <<isResponding, agentInstance, agentsMade, hasApiKey>>
        ELSE /\ agentInstance' = ensureAgent.agentInstance
             /\ agentsMade' = ensureAgent.agentsMade
             /\ chatError' = "none"
             /\ isResponding' = TRUE
             /\ sends' = [sends EXCEPT ![c] = [pc |-> "running",
                                               agent |-> ensureAgent.agentInstance]]
             /\ UNCHANGED hasApiKey

\* the synchronous start of updateSuggestions(), called from the finally
\* block: it calls ensureAgent() when an apiKey is present
UpdateSuggestionsStart ==
    IF hasApiKey
    THEN /\ agentInstance' = ensureAgent.agentInstance
         /\ agentsMade' = ensureAgent.agentsMade
    ELSE UNCHANGED <<agentInstance, agentsMade>>

\* agent.run(trimmed) resolves: the messages are rebuilt and sendMessage
\* awaits updateMemoryCount()
RunResolves(c) ==
    /\ sends[c].pc = "running"
    /\ UNCHANGED notChat
    /\ sends' = [sends EXCEPT ![c].pc = "counting"]
    /\ UNCHANGED <<isResponding, agentInstance, agentsMade, hasApiKey, chatError>>

\* updateMemoryCount() settles (it catches its own errors); finally block
CountSettles(c) ==
    /\ sends[c].pc = "counting"
    /\ UNCHANGED notChat
    /\ isResponding' = FALSE
    /\ UpdateSuggestionsStart
    /\ sends' = [sends EXCEPT ![c].pc = "done"]
    /\ UNCHANGED <<hasApiKey, chatError>>

\* agent.run(trimmed) rejects: catch block, then finally block
RunRejects(c) ==
    /\ sends[c].pc = "running"
    /\ UNCHANGED notChat
    /\ chatError' = "run failed"
    /\ isResponding' = FALSE
    /\ UpdateSuggestionsStart
    /\ sends' = [sends EXCEPT ![c].pc = "done"]
    /\ UNCHANGED hasApiKey

\* handleSettingsSubmit with a non-empty key: the configuration is saved
\* and the Agent is dropped, whether or not a run() is in flight
SettingsSubmit ==
    /\ agentsMade < MaxAgents
    /\ UNCHANGED notChat
    /\ hasApiKey' = TRUE
    /\ agentInstance' = 0
    /\ chatError' = "none"
    /\ UNCHANGED <<isResponding, agentsMade, sends>>

ChatInit ==
    /\ AgentIdle /\ StoreEmpty /\ CleanupIdle /\ InitIdle /\ ToolIdle
    /\ RelevantIdle /\ NoneAssigned /\ AgentConstructed
    /\ isResponding = FALSE
    /\ agentInstance = 0
    /\ agentsMade = 0
    /\ hasApiKey \in BOOLEAN
    /\ chatError = "none"
    /\ sends = [c \in SendIds |-> IdleSend]

ChatNext ==
    \/ \E c \in SendIds, text \in SendTexts : SendMessage(c, text)
    \/ \E c \in SendIds : RunResolves(c)
    \/ \E c \in SendIds : CountSettles(c)
    \/ \E c \in SendIds : RunRejects(c)
    \/ SettingsSubmit

SpecChat == ChatInit /\ [][ChatNext]_vars

\* ========================================================================
\* Memory tools (src/src/lib/memory-tools.ts): store_memory, recall_memory,
\* forget_memory, update_memory, list_memories, and the argument object of
\* cleanup_memories
\* ========================================================================
\* ---- JavaScript values of an argument object ----
\* s holds a text, w an enumerated string, n a number or a boolean (0/1)
Undefined == [t |-> "undefined", s |-> <<>>, n |-> 0, w |-> ""]
Str(s) == [t |-> "string", s |-> s, n |-> 0, w |-> ""]
Word(w) == [t |-> "string", s |-> <<>>, n |-> 0, w |-> w]
Num(n) == [t |-> "number", s |-> <<>>, n |-> n, w |-> ""]
Bool(b) == [t |-> "boolean", s |-> <<>>, n |-> IF b THEN 1 ELSE 0, w |-> ""]

\* args.key: undefined when the object has no such key
Prop(args, key) == IF key \in DOMAIN args THEN args[key] ELSE Undefined

\* a destructuring default applies to undefined only
Default(v, d) == IF v = Undefined THEN d ELSE v

\* !v is false
Truthy(v) ==
    CASE v.t = "string" -> v.s # <<>> \/ v.w # ""
      [] v.t = "number" -> v.n # 0
      [] v.t = "boolean" -> v.n = 1
      [] OTHER -> FALSE

\* the object normalizeAssistantMessage builds when JSON.parse throws
ParseErrorObject ==
    [k \in {"error", "raw"} |->
        IF k = "raw" THEN Str(ArgsTruncated) ELSE Str(<<"F", "a", "i", "l">>)]

ToolCall(name, args) == [name |-> name, args |-> args]

\* the tool calls explored
ToolCallMenu ==
    << ToolCall("store_memory", ParseErrorObject),
       ToolCall("recall_memory", ParseErrorObject),
       ToolCall("forget_memory", ParseErrorObject),
       ToolCall("update_memory", ParseErrorObject),
       ToolCall("list_memories", ParseErrorObject),
       ToolCall("store_memory",
                [k \in {"content", "category", "importance"} |->
                    CASE k = "content" -> Str(TextAb)
                      [] k = "category" -> Word("context")
                      [] OTHER -> Num(1)]),
       ToolCall("store_memory",
                [k \in {"content", "category"} |->
                    IF k = "content" THEN Str(TextAbMao) ELSE Word("fact")]),
       ToolCall("recall_memory",
                [k \in {"query", "category"} |->
                    IF k = "query" THEN Str(<<"a", "b">>) ELSE Word("mood")]),
       ToolCall("recall_memory",
                [k \in {"query", "category", "limit"} |->
                    CASE k = "query" -> Str(<<"a", "b">>)
                      [] k = "category" -> Word("context")
                      [] OTHER -> Num(1)]),
       ToolCall("recall_memory", [k \in {"query"} |-> Str(<<"a", "b">>)]),
       ToolCall("forget_memory",
                [k \in {"memoryId", "reason"} |->
                    IF k = "memoryId" THEN Num(1) ELSE Str(<<"b">>)]),
       ToolCall("forget_memory", [k \in {"memoryId"} |-> Num(2)]),
       ToolCall("update_memory",
                [k \in {"memoryId", "importance"} |->
                    IF k = "memoryId" THEN Num(1) ELSE Num(11)]),
       ToolCall("update_memory",
                [k \in {"memoryId", "content"} |->
                    IF k = "memoryId" THEN Num(2) ELSE Str(TextAbMao)]),
       ToolCall("list_memories",
                [k \in {"sortBy", "limit"} |->
                    IF k = "sortBy" THEN Word("important") ELSE Num(1)]) >>

\* the argument objects given to the two executions of cleanup_memories
CleanupArgsOf ==
    [c \in CallIds |->
        IF DryRunArg[c] THEN [k \in {"dryRun"} |-> Bool(TRUE)] ELSE ParseErrorObject]

\* the execution explored together with the other tools: the one that is
\* given the parse-error object
ParseErrorCleanups == {c \in CallIds : CleanupArgsOf[c] = ParseErrorObject}

\* const validCategories (store_memory)
validCategories == {"fact", "preference", "event", "correction", "context"}

\* the tests each execute makes before its try block: "rejected" when the
\* tool returns a failure at once, else the first store operation awaited
Validate(name, args) ==
    CASE name = "store_memory" ->
            IF ~Truthy(Prop(args, "content")) \/ ~Truthy(Prop(args, "category"))
            THEN "rejected"
            ELSE IF Prop(args, "category").w \notin validCategories
            THEN "rejected"
            ELSE "store"
      [] name = "recall_memory" ->
            IF ~Truthy(Prop(args, "query")) THEN "rejected"
            ELSE IF Truthy(Prop(args, "category")) THEN "getByCategory"
            ELSE "search"
      [] name = "forget_memory" ->
            IF ~Truthy(Prop(args, "memoryId")) THEN "rejected" ELSE "getById"
      [] name = "update_memory" ->
            IF ~Truthy(Prop(args, "memoryId")) THEN "rejected"
            ELSE IF ~Truthy(Prop(args, "content"))
                    /\ Prop(args, "importance") = Undefined
            THEN "rejected"
            ELSE "update"
      [] OTHER -> "list"

ArgsOf(t) == ToolCallMenu[t.call].args

\* the tool returns: its output.success, no store operation awaited any more
Return(t, success) ==
    [t EXCEPT !.pc = "idle", !.output = IF success THEN "success" ELSE "failure",
              !.memories = <<>>, !.content = <<>>, !.isValid = 1]

Called(t, method) == [t EXCEPT !.storeCalls = Append(@, method)]

\* execute(args) of one of the five tools, up to its first await
Execute(k) ==
    /\ tool.pc = "idle"
    /\ LET first == Validate(ToolCallMenu[k].name, ToolCallMenu[k].args)
           t == [IdleTool EXCEPT !.call = k]
       IN tool' = IF first = "rejected" THEN Return(t, FALSE)
                  ELSE [t EXCEPT !.pc = first]
    /\ UNCHANGED <<storeVars, notTool>>

\* store_memory: memoryStore.store resolves
StoreMemoryStores(id) ==
    /\ tool.pc = "store"
    /\ id \notin DOMAIN db
    /\ store(Prop(ArgsOf(tool), "content").s, Prop(ArgsOf(tool), "category").w,
             Default(Prop(ArgsOf(tool), "importance"), Num(5)).n, id)
    /\ tool' = Return(Called(tool, "store"), TRUE)
    /\ UNCHANGED <<now, notTool>>

IdsIn(memories) == [i \in 1..Len(memories) |-> memories[i].id]

\* recall_memory with a category: getByCategory(category, 50), filtered by
\* the query and cut to the limit
RecallByCategory ==
    /\ tool.pc = "getByCategory"
    /\ LET query == Prop(ArgsOf(tool), "query").s
           limit == Default(Prop(ArgsOf(tool), "limit"), Num(5)).n
           categoryMemories == getByCategory(Prop(ArgsOf(tool), "category").w, 50)
           matching == SelectSeq(categoryMemories,
                          LAMBDA m : Includes(ToLower(m.content), ToLower(query)))
           memories == SubSeq(matching, 1, Min(limit, Len(matching)))
       IN tool' = [Called(tool, "getByCategory") EXCEPT
                      !.pc = "recordAccess", !.memories = IdsIn(memories)]
    /\ UNCHANGED <<storeVars, notTool>>

\* recall_memory without a category: memoryStore.search(query, limit)
RecallSearch ==
    /\ tool.pc = "search"
    /\ \E results \in search(Prop(ArgsOf(tool), "query").s,
                             Default(Prop(ArgsOf(tool), "limit"), Num(5)).n) :
          tool' = [Called(tool, "search") EXCEPT
                      !.pc = "recordAccess",
                      !.memories = [i \in 1..Len(results) |-> results[i].memory.id]]
    /\ SetThis(initSearchIndex(This, db))
    /\ UNCHANGED <<db, now, notTool>>

\* mutant of recordAccessAll: no access is recorded
recordAccessNone(ids) == UNCHANGED <<db, indexedMemories>>

\* Promise.all(memories.map(m => memoryStore.recordAccess(m.id)))
recordAccessAll(ids) ==
    LET accessed(id) == [db[id] EXCEPT !.lastAccessedAt = now, !.accessCount = @ + 1]
    IN /\ db' = [id \in DOMAIN db |->
                    IF id \in ids THEN accessed(id) ELSE db[id]]
       /\ indexedMemories' = [id \in DOMAIN indexedMemories |->
                    IF id \in ids /\ id \in DOMAIN db
                    THEN accessed(id) ELSE indexedMemories[id]]

\* recall_memory: the accesses are recorded and the tool returns
RecallRecordsAccess ==
    /\ tool.pc = "recordAccess"
    /\ \A id \in Range(tool.memories) :
          id \in DOMAIN db => db[id].accessCount < MaxAccess
    /\ recordAccessAll(Range(tool.memories))
    /\ tool' = Return(IF tool.memories = <<>> THEN tool
                      ELSE Called(tool, "recordAccess"), TRUE)
    /\ UNCHANGED <<searchIndex, indexInitialized, now, notTool>>

\* forget_memory: memoryStore.getById(memoryId)
ForgetLooksUp ==
    /\ tool.pc = "getById"
    /\ LET memory == getById(Prop(ArgsOf(tool), "memoryId").n)
       IN tool' = IF memory = NoMemory
                  THEN Return(Called(tool, "getById"), FALSE)
                  ELSE [Called(tool, "getById") EXCEPT
                           !.pc = "invalidate", !.content = memory.content,
                           !.isValid = memory.isValid]
    /\ UNCHANGED <<storeVars, notTool>>

\* mutant of ReasonGiven: the reason is never looked at
ReasonIgnored(args) == FALSE

\* forget_memory: if (reason) (line 271)
ReasonGiven(args) == Truthy(Prop(args, "reason"))

\* forget_memory: memoryStore.invalidate(memoryId)
ForgetInvalidates ==
    /\ tool.pc = "invalidate"
    /\ invalidate(Prop(ArgsOf(tool), "memoryId").n)
    /\ tool' = IF ReasonGiven(ArgsOf(tool))
               THEN [Called(tool, "invalidate") EXCEPT !.pc = "storeCorrection"]
               ELSE Return(Called(tool, "invalidate"), TRUE)
    /\ UNCHANGED <<now, notTool>>

\* `[已遗忘] ${memory.content} - 原因: ${reason}`, one Han character standing
\* for each of the two Chinese words
ForgottenText(content, reason) ==
    <<"[", "U+5FD8", "]", " ">> \o content
        \o <<" ", "-", " ", "U+5FD8", ":", " ">> \o reason

\* forget_memory: the correction is stored with importance 3
ForgetStoresCorrection(id) ==
    /\ tool.pc = "storeCorrection"
    /\ id \notin DOMAIN db
    /\ store(ForgottenText(tool.content, Prop(ArgsOf(tool), "reason").s),
             "correction", 3, id)
    /\ tool' = Return(Called(tool, "store"), TRUE)
    /\ UNCHANGED <<now, notTool>>

\* update_memory: the updates object and memoryStore.update(memoryId, updates)
UpdateMemoryUpdates ==
    /\ tool.pc = "update"
    /\ LET content == Prop(ArgsOf(tool), "content")
           importance == Prop(ArgsOf(tool), "importance")
           memoryId == Prop(ArgsOf(tool), "memoryId").n
           fields == (IF Truthy(content) THEN {"content"} ELSE {})
                     \cup (IF importance # Undefined THEN {"importance"} ELSE {})
       IN /\ update(memoryId, Updates(fields, content.s, importance.n, "fact", 1))
          /\ tool' = Return(Called(tool, "update"), memoryId \in DOMAIN db)
    /\ UNCHANGED <<now, notTool>>

\* list_memories: one of the three listings, then getCount
ListReads ==
    /\ tool.pc = "list"
    /\ LET method == IF Truthy(Prop(ArgsOf(tool), "category")) THEN "getByCategory"
                     ELSE IF Default(Prop(ArgsOf(tool), "sortBy"), Word("recent"))
                                = Word("important")
                     THEN "getMostImportant"
                     ELSE "getRecent"
       IN tool' = Return(Called(Called(tool, method), "getCount"), TRUE)
    /\ UNCHANGED <<storeVars, notTool>>

\* an awaited store operation rejects: the catch block returns a failure
ToolOperationRejects ==
    /\ tool.pc # "idle"
    /\ tool' = Return(tool, FALSE)
    /\ UNCHANGED <<storeVars, notTool>>

\* cleanup_memories.execute(args): strategy = 'all' and dryRun = false are
\* the defaults of the destructuring
CleanupExecute(c) ==
    CleanupStart(c,
                 Default(Prop(CleanupArgsOf[c], "strategy"), Word("all")).w,
                 Truthy(Default(Prop(CleanupArgsOf[c], "dryRun"), Bool(FALSE))))

ToolsInit ==
    AgentIdle /\ StoreEmpty /\ CleanupIdle /\ InitIdle /\ ChatIdle /\ ToolIdle
             /\ RelevantIdle /\ NoneAssigned /\ AgentConstructed

ToolsNext ==
    \/ \E k \in 1..Len(ToolCallMenu) : Execute(k)
    \/ \E id \in Ids : StoreMemoryStores(id)
    \/ RecallByCategory
    \/ RecallSearch
    \/ RecallRecordsAccess
    \/ ForgetLooksUp
    \/ ForgetInvalidates
    \/ \E id \in Ids : ForgetStoresCorrection(id)
    \/ UpdateMemoryUpdates
    \/ ListReads
    \/ ToolOperationRejects
    \/ \E c \in ParseErrorCleanups : CleanupExecute(c)
    \/ \E c \in ParseErrorCleanups : CleanupAnalyze(c)
    \/ \E c \in ParseErrorCleanups : CleanupInvalidate(c)
    \/ \E c \in ParseErrorCleanups : CleanupFails(c)

SpecTools == ToolsInit /\ [][ToolsNext]_vars

\* ========================================================================
\* getRelevantMemories (src/src/lib/memory-tools.ts, lines 597-662)
\* ========================================================================
\* mutant of Merge: the test of `seen` is left out
MergeAll(candidates, memories) == candidates \o memories

\* for (const memory of ...) if (!seen.has(memory.id)) { seen.add(memory.id);
\* candidates.push(memory) }: `seen` holds the ids of the candidates
RECURSIVE Merge(_, _)
Merge(candidates, memories) ==
    IF memories = <<>> THEN candidates
    ELSE Merge(IF \E i \in 1..Len(candidates) : candidates[i].id = Head(memories).id
               THEN candidates
               ELSE Append(candidates, Head(memories)),
               Tail(memories))

\* the records of a search result ({...memory, relevanceScore})
MemoriesOf(results) == [i \in 1..Len(results) |-> results[i].memory]

\* mutant of searchReadOnly: every record found is marked as accessed
searchRecordingAccess(results) ==
    /\ recordAccessAll(Range(IdsIn(MemoriesOf(results))))
    /\ searchIndex' = initSearchIndex(This, db).searchIndex
    /\ indexInitialized' = TRUE

\* memoryStore.search as getRelevantMemories awaits it (lines 606, 621):
\* the index is initialised if it was not, and the records are only read
searchReadOnly(results) ==
    /\ SetThis(initSearchIndex(This, db))
    /\ UNCHANGED db

\* Math.floor((importance - 1) / 3)
Tier(memory) == (memory.importance - 1) \div 3

\* the Fisher-Yates shuffle followed by the stable sort on the tier: every
\* order of the candidates in which the tiers do not increase
Shuffled(candidates) ==
    LET n == Len(candidates)
        perms == {p \in [1..n -> 1..n] : \A i, j \in 1..n : i # j => p[i] # p[j]}
    IN {[i \in 1..n |-> candidates[p[i]]] : p \in
           {q \in perms : \A i \in 1..(n - 1) :
                             Tier(candidates[q[i]]) >= Tier(candidates[q[i + 1]])}}

\* lines 643-661: the possible return values
Select(candidates, limit) ==
    IF Len(candidates) > limit
    THEN {SubSeq(c, 1, limit) : c \in Shuffled(candidates)}
    ELSE {candidates}

\* what expandSearchQuery can resolve with: up to three terms that contain a
\* Han character, none when the provider call fails or no apiKey is stored
ExpandedTermsMenu ==
    { <<>>, << <<"U+732B">> >>, << <<"U+732B">>, <<"U+5FD8">> >> }

RelevantContexts == {<<"a", "b">>, <<"U+732B">>}

\* getRelevantMemories(context, limit): up to the await of the direct search
GetRelevantMemories(context, limit) ==
    /\ relevant.pc = "idle"
    /\ relevant' = [IdleRelevant EXCEPT !.pc = "search", !.context = context,
                                        !.limit = limit]
    /\ UNCHANGED <<storeVars, notRelevant>>

\* 1. memoryStore.search(context, limit * 2) resolves (lines 606-612)
DirectSearch ==
    /\ relevant.pc = "search"
    /\ \E results \in search(relevant.context, relevant.limit * 2) :
          LET candidates == Merge(<<>>, MemoriesOf(results))
          IN /\ relevant' = [relevant EXCEPT
                 !.directResults = IdsIn(MemoriesOf(results)),
                 !.candidates = candidates,
                 !.pc = IF Len(candidates) < relevant.limit
                        THEN "expand" ELSE "important"]
             /\ searchReadOnly(results)
    /\ UNCHANGED <<now, notRelevant>>

\* 2. expandSearchQuery(context) resolves (lines 615-618)
ExpandQuery(expandedTerms) ==
    /\ relevant.pc = "expand"
    /\ relevant' = [relevant EXCEPT
           !.expandedTerms = expandedTerms, !.next = 1,
           !.pc = IF expandedTerms = <<>> THEN "important" ELSE "terms"]
    /\ UNCHANGED <<storeVars, notRelevant>>

\* memoryStore.search(term, 3) resolves for one term (lines 620-628)
TermSearch ==
    /\ relevant.pc = "terms"
    /\ \E results \in search(relevant.expandedTerms[relevant.next], 3) :
          /\ relevant' = [relevant EXCEPT
                 !.termResults = @ \o IdsIn(MemoriesOf(results)),
                 !.candidates = Merge(@, MemoriesOf(results)),
                 !.next = @ + 1,
                 !.pc = IF relevant.next = Len(relevant.expandedTerms)
                        THEN "important" ELSE "terms"]
          /\ searchReadOnly(results)
    /\ UNCHANGED <<now, notRelevant>>

\* a search for a term rejects: the catch of lines 629-631
TermSearchFails ==
    /\ relevant.pc = "terms"
    /\ relevant' = [relevant EXCEPT !.pc = "important"]
    /\ UNCHANGED <<storeVars, notRelevant>>

\* 3. and 4. memoryStore.getMostImportant(3) resolves, the candidates are
\* ranked and cut (lines 634-661)
ImportantRead ==
    /\ relevant.pc = "important"
    /\ LET importantMemories == getMostImportant(3)
           candidates == Merge(relevant.candidates, importantMemories)
       IN \E returned \in Select(candidates, relevant.limit) :
             relevant' = [relevant EXCEPT
                 !.importantMemories = IdsIn(importantMemories),
                 !.candidates = candidates,
                 !.pc = "done", !.settled = "resolved",
                 !.returned = returned]
    /\ UNCHANGED <<storeVars, notRelevant>>

\* the direct search or getMostImportant rejects: so does the call
LookupRejects ==
    /\ relevant.pc \in {"search", "important"}
    /\ relevant' = [relevant EXCEPT !.pc = "done", !.settled = "rejected"]
    /\ UNCHANGED <<storeVars, notRelevant>>

\* the records found in the database when the session starts
RelevantShapes ==
    << Shape(TextAb, "fact", 5, 0, 0),
       Shape(TextAbMao, "context", 9, 0, 0),
       Shape(<<"U+732B">>, "event", 2, 0, 0) >>

RelevantInit ==
    /\ AgentIdle
    /\ \E S \in SUBSET RecordIds : \E f \in [S -> 1..Len(RelevantShapes)] :
          db = [id \in S |-> Persisted(id, RelevantShapes[f[id]])]
    /\ searchIndex = NullIndex
    /\ indexedMemories = EmptyMap
    /\ indexInitialized = FALSE
    /\ now = 0
    /\ CleanupIdle
    /\ InitIdle
    /\ ChatIdle
    /\ ToolIdle
    /\ RelevantIdle /\ NoneAssigned /\ AgentConstructed

\* one call of getRelevantMemories, while records are invalidated and deleted
RelevantNext ==
    \/ \E context \in RelevantContexts, limit \in Limits :
          GetRelevantMemories(context, limit)
    \/ DirectSearch
    \/ \E expandedTerms \in ExpandedTermsMenu : ExpandQuery(expandedTerms)
    \/ TermSearch
    \/ TermSearchFails
    \/ ImportantRead
    \/ LookupRejects
    \/ \E id \in RecordIds : Invalidate(id)
    \/ \E id \in RecordIds : Delete(id)

SpecRelevant == RelevantInit /\ [][RelevantNext]_vars

\* ------------------------------------------------------------------------
\* getRelevantMemories over records of every importance tier
\* ------------------------------------------------------------------------
\* importances on both sides of every tier boundary
RankedImportances == {1, 3, 4, 5, 6, 7, 8, 9, 10}

\* the records found in the database when the session starts: the same
\* text, any importance
RankingInit ==
    /\ AgentIdle
    /\ \E S \in SUBSET RecordIds : \E f \in [S -> RankedImportances] :
          db = [id \in S |-> Persisted(id, Shape(TextAb, "fact", f[id], 0, 0))]
    /\ searchIndex = NullIndex
    /\ indexedMemories = EmptyMap
    /\ indexInitialized = FALSE
    /\ now = 0
    /\ CleanupIdle
    /\ InitIdle
    /\ ChatIdle
    /\ ToolIdle
    /\ RelevantIdle /\ NoneAssigned /\ AgentConstructed

\* one call of getRelevantMemories
RankingNext ==
    \/ \E context \in RelevantContexts, limit \in Limits :
          GetRelevantMemories(context, limit)
    \/ DirectSearch
    \/ \E expandedTerms \in ExpandedTermsMenu : ExpandQuery(expandedTerms)
    \/ TermSearch
    \/ TermSearchFails
    \/ ImportantRead
    \/ LookupRejects

SpecRanking == RankingInit /\ [][RankingNext]_vars

\* ------------------------------------------------------------------------
\* Properties of the Agent
\* ------------------------------------------------------------------------
Front(h) == SubSeq(h, 1, Len(h) - 1)

\* the exchanges (run() calls) that still have a user or assistant entry in h
ExchangesIn(h) ==
    {h[i].turn : i \in {j \in 1..Len(h) : h[j].role \in {"user", "assistant"}}}

\* an exchange is complete when it holds its user entry and an assistant answer
CompleteExchange(h, t) ==
    /\ \E i \in 1..Len(h) : h[i].turn = t /\ h[i].role = "user"
    /\ \E i \in 1..Len(h) :
          h[i].turn = t /\ h[i].role = "assistant" /\ h[i].content # <<>>

MostRecent(S, n) == {t \in S : Cardinality({u \in S : u > t}) < n}

\* the entries the current run() call has appended
TurnEntries == SelectSeq(history, LAMBDA e : e.turn = turn)

\* entry j of h is an assistant tool-call entry directly followed by one tool
\* entry per request, in request order
FollowedByResults(h, j) ==
    /\ j + Len(h[j].tool_calls) <= Len(h)
    /\ \A k \in 1..Len(h[j].tool_calls) :
          /\ h[j + k].role = "tool"
          /\ h[j + k].toolCallId = h[j].tool_calls[k]

\* C2: with maxContextMessages = N and a history of more than N complete
\* exchanges, the run() step that trims leaves exactly the N most recent
\* exchanges in history (the new user entry is the last entry of history').
C2_TrimKeepsMostRecentExchanges ==
    [][ ( /\ pc = "idle" /\ pc' = "inject"
          /\ Cardinality(ExchangesIn(history)) > MaxContextMessages
          /\ \A t \in ExchangesIn(history) : CompleteExchange(history, t) )
        => ExchangesIn(Front(history'))
             = MostRecent(ExchangesIn(history), MaxContextMessages) ]_vars

\* C3: no tool entry of history is orphaned: each one is preceded by the
\* assistant entry whose tool_calls lists its toolCallId.
C3_NoOrphanedToolMessage ==
    \A i \in 1..Len(history) :
        history[i].role = "tool" =>
            \E j \in 1..(i - 1) :
                /\ history[j].role = "assistant"
                /\ \E k \in 1..Len(history[j].tool_calls) :
                      history[j].tool_calls[k] = history[i].toolCallId

\* every chat-completion call of the current run() was answered by a response
\* with empty content and at least one tool call
EveryResponseToolOnly ==
    Cardinality({i \in 1..Len(TurnEntries) :
                    /\ TurnEntries[i].role = "assistant"
                    /\ TurnEntries[i].content = <<>>
                    /\ TurnEntries[i].tool_calls # <<>>}) = modelCalls

\* the entries of the current run(): the user entry, then per response the
\* assistant tool-call entry with its tool results, and nothing else
TurnBlocksWellFormed ==
    LET h == TurnEntries
    IN  /\ Len(h) >= 1 /\ h[1].role = "user"
        /\ \A j \in 1..Len(h) :
              (h[j].role = "assistant" /\ h[j].tool_calls # <<>>)
                  => FollowedByResults(h, j)
        /\ \A i \in 1..Len(h) :
              h[i].role = "tool" =>
                  \E j \in 1..(i - 1) :
                      /\ h[j].role = "assistant"
                      /\ i - j <= Len(h[j].tool_calls)
                      /\ h[j].tool_calls[i - j] = h[i].toolCallId

\* C4: a run() issues at most maxRecursions chat-completion calls; when every
\* response was tool-only with empty content it returns after exactly
\* maxRecursions calls with content "" and history holds every assistant
\* tool-call entry with its tool results.
C4_RecursionBound ==
    /\ modelCalls <= maxRec
    /\ (pc = "idle" /\ runResult.status = "returned" /\ EveryResponseToolOnly)
          => /\ modelCalls = maxRec
             /\ runResult.content = <<>>
             /\ TurnBlocksWellFormed
             /\ Cardinality({i \in 1..Len(TurnEntries) :
                                TurnEntries[i].role = "assistant"}) = maxRec

C4_Witness ==
    /\ pc = "idle" /\ runResult.status = "returned"
    /\ maxRec >= 1 /\ modelCalls = maxRec
    /\ EveryResponseToolOnly
    /\ runResult.content = <<>>
    /\ history[Len(history)].role = "tool"

\* C5: the first response with non-empty (normalized) content ends the loop:
\* no call is prepared or in flight after it, run() returns exactly that
\* content, and its tool calls are executed and recorded after the assistant
\* entry that carries the content.
C5_ContentEndsLoop ==
    /\ pc \in {"loop", "awaiting"} => NormalizeContent(lastRaw) = <<>>
    /\ (pc = "idle" /\ runResult.status = "returned"
            /\ NormalizeContent(lastRaw) # <<>>)
          => LET h == TurnEntries
                 j == Len(h) - Len(lastRaw.tool_calls)
             IN  /\ runResult.content = NormalizeContent(lastRaw)
                 /\ j >= 2
                 /\ h[j].role = "assistant"
                 /\ h[j].content = NormalizeContent(lastRaw)
                 /\ Len(h[j].tool_calls) = Len(lastRaw.tool_calls)
                 /\ \A k \in 1..Len(lastRaw.tool_calls) :
                       h[j].tool_calls[k] = lastRaw.tool_calls[k].id
                 /\ FollowedByResults(h, j)
                 /\ lastRaw.tool_calls # <<>> =>
                       /\ Len(exec) = Len(lastRaw.tool_calls)
                       /\ \A k \in 1..Len(exec) : exec[k].state = "done"

C5_Witness ==
    /\ pc = "idle" /\ runResult.status = "returned"
    /\ modelCalls = 2
    /\ runResult.content = <<"b">>
    /\ Len(lastRaw.tool_calls) = 2
    /\ history[Len(history)].role = "tool"
    /\ history[Len(history)].toolCallId = lastRaw.tool_calls[2].id

\* while the tool calls of a response execute, nothing but the assistant
\* tool-call entry has been appended
C6_WhileExecuting ==
    /\ pc = "tools" =>
          /\ Len(history) >= 1
          /\ history[Len(history)].role = "assistant"
          /\ Len(history[Len(history)].tool_calls) = Len(toolCalls)
          /\ \A k \in 1..Len(toolCalls) :
                history[Len(history)].tool_calls[k] = toolCalls[k].id
          /\ Len(exec) = Len(toolCalls)
    /\ (\E i \in 1..Len(exec) : exec[i].state = "running") => pc = "tools"

\* no chat-completion call is issued while tools execute; the k tool results
\* are appended in one step, in request order, only when all k executions
\* have settled
C6_JoinStep ==
    /\ pc = "tools" => modelCalls' = modelCalls
    /\ (pc = "tools" /\ history' # history)
          => /\ \A i \in 1..Len(exec) : exec[i].state = "done"
             /\ Len(history') = Len(history) + Len(toolCalls)
             /\ SubSeq(history', 1, Len(history)) = history
             /\ \A k \in 1..Len(toolCalls) :
                   /\ history'[Len(history) + k].role = "tool"
                   /\ history'[Len(history) + k].toolCallId = toolCalls[k].id
    /\ (pc = "tools" /\ pc' # "tools") => history' # history

\* C6: the barrier above, as a property of every state (C6_WhileExecuting)
\* and of every step (C6_JoinStep): the assistant entry first, then the k
\* results in request order once all k executions have completed, with no
\* chat-completion call in between.
C6_FanOutFanIn == [](C6_WhileExecuting) /\ [][C6_JoinStep]_vars

C6_Witness ==
    /\ pc = "loop"
    /\ Len(toolCalls) = 2
    /\ Len(history) >= 3
    /\ history[Len(history) - 2].role = "assistant"
    /\ history[Len(history) - 1].toolCallId = toolCalls[1].id
    /\ history[Len(history)].toolCallId = toolCalls[2].id

\* ------------------------------------------------------------------------
\* Claims about MemoryStore (SpecStore)
\* ------------------------------------------------------------------------
Invalidated(id) == id \in DOMAIN db /\ db[id].isValid = 0

IdsOf(results) == {results[i].id : i \in 1..Len(results)}

SearchIdsOf(results) == {results[i].memory.id : i \in 1..Len(results)}

\* a record with isValid = 0 is in no query result, is not counted, and is
\* what getById returns
C1_HiddenFromQueries ==
    \A id \in Ids :
        Invalidated(id) =>
            /\ \A q \in Queries, lim \in Limits :
                   \A results \in search(q, lim) : id \notin SearchIdsOf(results)
            /\ \A cat \in Categories, lim \in Limits :
                   id \notin IdsOf(getByCategory(cat, lim))
            /\ \A lim \in Limits :
                   /\ id \notin IdsOf(getMostImportant(lim))
                   /\ id \notin IdsOf(getRecent(lim))
            /\ getCount <= Cardinality((DOMAIN db) \ {id})
            /\ getCount = Cardinality({j \in DOMAIN db : ~Invalidated(j)})
            /\ getById(id) # NoMemory
            /\ getById(id).id = id

\* only delete(id) and clearAll take an invalidated record out of the database
C1_StaysUntilDeleted ==
    \A id \in Ids :
        (Invalidated(id) /\ ~Delete(id) /\ ~ClearAll) =>
            /\ getById(id)' # NoMemory
            /\ getById(id)'.id = id

\* C1: a record whose validity flag is 0 is returned by no search,
\* getByCategory, getMostImportant or getRecent call and is not counted by
\* getCount, whatever operations follow; getById(id) keeps returning it
\* across every operation other than its hard deletion (delete(id), or
\* clearAll erasing every record).
C1_InvalidatedHiddenButRetrievable ==
    [](C1_HiddenFromQueries) /\ [][C1_StaysUntilDeleted]_vars

\* an invalidated record whose text matches "ab" sits next to a valid one
\* that the search for "ab" returns, with the index initialised
C1_Witness ==
    \E id \in Ids, j \in Ids :
        /\ Invalidated(id)
        /\ indexInitialized
        /\ Includes(ToLower(db[id].content), <<"a", "b">>)
        /\ j \in DOMAIN db /\ db[j].isValid = 1
        /\ \E results \in search(<<"a", "b">>, MaxIds) : SearchIdsOf(results) = {j}
        /\ getCount = 1
        /\ getById(id).id = id

\* ------------------------------------------------------------------------
\* Claims about cleanup_memories (SpecCleanup)
\* ------------------------------------------------------------------------
FlaggedIds(call) == {call.toRemove[i].id : i \in 1..Len(call.toRemove)}

ReportedIds(call) == {call.output.details[i].id : i \in 1..Len(call.output.details)}

Returned(call) == call.pc = "done" /\ call.output.success

Analysed(call) == call.pc = "invalidating" \/ Returned(call)

StepOf(c) == cleanup'[c] # cleanup[c]

\* a returned real run: the listed records are invalid, the other analysed
\* records valid
C7_FlaggedAreInvalid ==
    \A c \in CallIds :
        (Returned(cleanup[c]) /\ ~cleanup[c].output.dryRun) =>
            /\ cleanup[c].output.removed = Len(cleanup[c].output.details)
            /\ \A id \in ReportedIds(cleanup[c]) :
                   id \in DOMAIN db /\ db[id].isValid = 0
            /\ \A i \in 1..Len(cleanup[c].allMemories) :
                   LET id == cleanup[c].allMemories[i].id
                   IN id \notin ReportedIds(cleanup[c]) =>
                         id \in DOMAIN db /\ db[id].isValid = 1

\* a step of a real run changes no record outside its flagged list
C7_OthersUntouched ==
    \A c \in CallIds :
        (StepOf(c) /\ ~cleanup'[c].dryRun) =>
            \A id \in DOMAIN db :
                id \notin FlaggedIds(cleanup[c]) =>
                    id \in DOMAIN db' /\ db'[id] = db[id]

\* C7: when a cleanup_memories call with dryRun = false returns its flagged
\* list, every listed record is invalid and every analysed record that is
\* not listed is still valid; no step of the call touches a record that is
\* not on its list.
C7_InvalidatesAllAndOnlyFlagged ==
    [](C7_FlaggedAreInvalid) /\ [][C7_OthersUntouched]_vars

\* a real run has returned two flagged records, both now invalid, and left
\* an analysed record valid
C7_Witness ==
    \E c \in CallIds :
        /\ Returned(cleanup[c]) /\ ~cleanup[c].output.dryRun
        /\ cleanup[c].output.removed = 2
        /\ \A id \in ReportedIds(cleanup[c]) : db[id].isValid = 0
        /\ \E i \in 1..Len(cleanup[c].allMemories) :
              /\ cleanup[c].allMemories[i].id \notin ReportedIds(cleanup[c])
              /\ db[cleanup[c].allMemories[i].id].isValid = 1

\* a step of a dry run changes neither the database nor the index
C8_DryRunChangesNothing ==
    \A c \in CallIds :
        (StepOf(c) /\ cleanup'[c].dryRun) =>
            /\ db' = db
            /\ searchIndex' = searchIndex
            /\ indexedMemories' = indexedMemories

\* same analysed records, same clock, same strategy: same report
C8_SameReport ==
    \A c \in CallIds, w \in CallIds :
        ( /\ Returned(cleanup[c]) /\ cleanup[c].output.dryRun
          /\ Returned(cleanup[w]) /\ ~cleanup[w].output.dryRun
          /\ cleanup[c].strategy = cleanup[w].strategy
          /\ cleanup[c].allMemories = cleanup[w].allMemories
          /\ cleanup[c].at = cleanup[w].at )
        => /\ cleanup[c].output.details = cleanup[w].output.details
           /\ cleanup[c].output.removed = cleanup[w].output.removed
           /\ cleanup[c].output.removed = Len(cleanup[c].output.details)

\* C8: no step of a cleanup_memories call with dryRun = true changes a
\* record (or the index), and a dry run and a real run that analysed the
\* same records with the same strategy report the same flagged list and
\* the same count.
C8_DryRunReportsSameAndKeepsRecords ==
    [](C8_SameReport) /\ [][C8_DryRunChangesNothing]_vars

\* a dry run and a real run analysed the same records with the same
\* strategy and both reported a non-empty list
C8_Witness ==
    \E c \in CallIds, w \in CallIds :
        /\ Returned(cleanup[c]) /\ cleanup[c].output.dryRun
        /\ Returned(cleanup[w]) /\ ~cleanup[w].output.dryRun
        /\ cleanup[c].strategy = cleanup[w].strategy
        /\ cleanup[c].allMemories = cleanup[w].allMemories
        /\ cleanup[c].output.removed >= 1
        /\ cleanup[c].output.details = cleanup[w].output.details

\* the analysed records that share a normalized content
DuplicateGroups(call) ==
    {G \in { {m \in Range(call.allMemories) :
                NormalizeForCompare(m.content) = NormalizeForCompare(x.content)}
             : x \in Range(call.allMemories) } : Cardinality(G) > 1}

\* C9: with strategy 'duplicates', in every group of more than one analysed
\* record with the same normalized content exactly one record is not
\* flagged and none of the group has a higher importance; every flagged
\* record belongs to such a group; when the real run returns, the flagged
\* members are invalid and the kept one is valid.
C9_DuplicatesKeepHighestImportance ==
    \A c \in CallIds :
        (Analysed(cleanup[c]) /\ cleanup[c].strategy = "duplicates") =>
            LET call == cleanup[c]
                groups == DuplicateGroups(call)
            IN /\ \A G \in groups :
                     LET kept == {m \in G : m.id \notin FlaggedIds(call)}
                     IN /\ Cardinality(kept) = 1
                        /\ \A k \in kept, m \in G : k.importance >= m.importance
                        /\ (Returned(call) /\ ~call.dryRun) =>
                               \A m \in G : db[m.id].isValid = (IF m \in kept THEN 1 ELSE 0)
               /\ \A id \in FlaggedIds(call) : \E G \in groups : \E m \in G : m.id = id
               /\ Len(call.toRemove) = Cardinality(FlaggedIds(call))

\* the scenario of the claim: importances 5, 9 and 3 with one normalized
\* content; the real run has returned, the 9 is valid, the 5 and the 3 are not
C9_Witness ==
    \E c \in CallIds :
        /\ Returned(cleanup[c]) /\ ~cleanup[c].dryRun
        /\ cleanup[c].strategy = "duplicates"
        /\ \E G \in DuplicateGroups(cleanup[c]) :
              /\ {m.importance : m \in G} = {5, 9, 3}
              /\ \A m \in G : db[m.id].isValid = (IF m.importance = 9 THEN 1 ELSE 0)

\* ------------------------------------------------------------------------
\* Claims about the lazy initialisation of the index (SpecInit)
\* ------------------------------------------------------------------------
ValidIds == {id \in DOMAIN db : db[id].isValid = 1}

\* at most one build, none before the first call, index = the valid records
C10_BuiltOnce ==
    /\ builds <= 1
    /\ builds = 0 => (~indexInitialized /\ ~searchIndex.exists)
    /\ (\A p \in OpIds : ops[p].pc = "idle") =>
           (builds = 0 /\ indexInitPromise = "null")
    /\ indexInitialized =>
           /\ builds = 1
           /\ initRuns.awaitingDB = 0 /\ initRuns.inCursor = 0
           /\ DOMAIN searchIndex.docs = ValidIds
           /\ DOMAIN indexedMemories = ValidIds
    /\ \A p \in OpIds : ops[p].pc = "done" => (indexInitialized /\ builds = 1)

\* a call leaves its await of initSearchIndex() only on the completed build
C10_OperationsWait ==
    \A p \in OpIds :
        ( /\ ops[p].pc = "awaitInit"
          /\ ops'[p] # ops[p]
          /\ indexInitPromise # "rejected" )
        => /\ indexInitialized
           /\ builds = 1
           /\ ops[p].awaits = "promise" => indexInitPromise = "fulfilled"

\* C10: nothing is built before the first store/search; however the
\* concurrent store and search calls interleave, the index is built at most
\* once, from the valid records of the database, and no call gets past its
\* `await initSearchIndex()` before that one build has completed.
C10_IndexInitialisedExactlyOnce ==
    [](C10_BuiltOnce) /\ [][C10_OperationsWait]_vars

\* every call started before the index existed, a store and a search among
\* them; all have completed on the one build, which indexed the record
\* found in the database
C10_Witness ==
    /\ \A p \in OpIds : ops[p].pc = "done" /\ ops[p].awaits = "promise"
    /\ \E p \in OpIds : ops[p].kind = "store"
    /\ \E p \in OpIds : ops[p].kind = "search"
    /\ builds = 1
    /\ 1 \in DOMAIN searchIndex.docs
    /\ Cardinality(DOMAIN db) > 1

\* ------------------------------------------------------------------------
\* Properties of the flagged list of cleanup_memories (SpecCleanup)
\* ------------------------------------------------------------------------
\* the analysed record with that identifier matches each of the three rules
MatchesEveryRule(call, id) ==
    \E i \in 1..Len(call.allMemories) :
        LET memory == call.allMemories[i]
        IN /\ memory.id = id
           /\ IsOutdated(memory, call.at)
           /\ IsLowImportance(memory)
           /\ \E j \in 1..Len(call.allMemories) :
                 /\ j # i
                 /\ NormalizeForCompare(call.allMemories[j].content)
                        = NormalizeForCompare(memory.content)
                 /\ call.allMemories[j].importance > memory.importance

\* C38: cleanup_memories never lists the same identifier twice in its
\* flagged list under any strategy (in particular 'all', where a record can
\* match the duplicates, outdated and low_importance rules at once), so the
\* reported count equals the number of distinct flagged records.
C38_FlaggedOnce ==
    \A c \in CallIds :
        LET call == cleanup[c]
        IN /\ \A i, j \in 1..Len(call.toRemove) :
                 call.toRemove[i].id = call.toRemove[j].id => i = j
           /\ call.pc = "done" /\ call.output.success =>
                 /\ call.output.details = call.toRemove
                 /\ call.output.removed = Cardinality(ReportedIds(call))

\* a call with strategy 'all' has returned a list with a record that matches
\* all three rules
C38_Witness ==
    \E c \in CallIds :
        /\ cleanup[c].pc = "done"
        /\ cleanup[c].strategy = "all"
        /\ cleanup[c].output.success
        /\ \E id \in ReportedIds(cleanup[c]) :
              MatchesEveryRule(cleanup[c], id)

\* ------------------------------------------------------------------------
\* Properties of the ranking of getRelevantMemories (SpecRanking)
\* ------------------------------------------------------------------------
\* the tiers 10-8, 7-5 and 4-1
StatedTier(memory) ==
    IF memory.importance >= 8 THEN 2 ELSE IF memory.importance >= 5 THEN 1 ELSE 0

\* the candidates that are not returned
Dropped(call) ==
    {i \in 1..Len(call.candidates) :
        \A k \in 1..Len(call.returned) : call.returned[k].id # call.candidates[i].id}

\* C39: when getRelevantMemories has more candidates than limit, it orders
\* them into the three importance tiers 10-8, 7-5 and 4-1 before
\* truncation: records of importance 8, 9 and 10 form one tier, no record of
\* a lower tier precedes a record of a higher tier, and a record is dropped
\* only if no record of a lower tier is kept.
C39_RankedByStatedTiers ==
    /\ relevant.pc = "done"
    /\ relevant.settled = "resolved"
    /\ Len(relevant.candidates) > relevant.limit
    => /\ \A i, j \in 1..Len(relevant.returned) :
             i < j => StatedTier(relevant.returned[i]) >= StatedTier(relevant.returned[j])
       /\ \A d \in Dropped(relevant) : \A k \in 1..Len(relevant.returned) :
             StatedTier(relevant.returned[k]) >= StatedTier(relevant.candidates[d])

\* ------------------------------------------------------------------------
\* Properties of a failed open of the database (SpecOpen)
\* ------------------------------------------------------------------------
\* how a call made now settles when the open has been rejected: every
\* operation but search awaits getDB(), which returns the rejected
\* dbPromise; search awaits initSearchIndex(), which returns at once when
\* indexInitialized is set
SettlesAfterFailedOpen(kind) ==
    IF kind = "search" /\ indexInitialized THEN "resolved" ELSE "rejected"

\* once the open has been rejected it stays rejected: no step, close()
\* included, clears the failure or starts a new open
C36_FailureStays == [][dbConn = "failed" => dbConn' = "failed"]_vars

\* with the open rejected, a call of any operation made now is rejected
C36_LaterCallsRejected ==
    dbConn = "failed" =>
        \A kind \in {"store", "search", "getById", "getCount"} :
            SettlesAfterFailedOpen(kind) = "rejected"

\* with the open rejected, a call that awaits the open or the current
\* initialisation does not complete
C36_NoneCompletes ==
    [][\A p \in OpIds :
          dbConn = "failed" /\ ops[p].pc \in {"awaitDB", "awaitInit"}
              /\ ops[p].awaits # "detached" /\ ops'[p] # ops[p]
          => ops'[p].pc # "done"]_vars

\* C36: a failed open of the persistent store is permanent for the
\* MemoryStore instance: once the open has been rejected, every later
\* operation is rejected with the cached failure without a new open attempt,
\* and close() does not clear that cached failure.
C36_FailedOpenIsPermanent ==
    /\ C36_FailureStays
    /\ [](C36_LaterCallsRejected)
    /\ C36_NoneCompletes

\* ------------------------------------------------------------------------
\* Properties of executeToolCalls and of the argument parsing
\* ------------------------------------------------------------------------
\* while the tools run there is one execution per request, carrying the
\* request's id and name; an unregistered name is a settled failure
C12_OnePerRequest ==
    pc = "tools" =>
        /\ Len(exec) = Len(toolCalls)
        /\ \A i \in 1..Len(toolCalls) :
              /\ exec[i].toolCallId = toolCalls[i].id
              /\ exec[i].name = toolCalls[i].name
              /\ toolCalls[i].name \notin ToolRegistry =>
                    exec[i].state = "done" /\ ~exec[i].success

\* a tool that settles, by a result or by a throw, leaves run() in the
\* join and the sibling executions as they were; a throw is a failure
C12_FailureConfined ==
    \A i \in 1..Len(exec), outcome \in ToolOutcomes :
        ToolFinish(i, outcome) =>
            /\ pc' = "tools" /\ runResult' = runResult
            /\ Len(exec') = Len(exec)
            /\ \A j \in 1..Len(exec) : j # i => exec'[j] = exec[j]
            /\ exec'[i].state = "done"
            /\ outcome = "throws" => ~exec'[i].success

\* no step taken while the tools run rejects run(), and the join pushes
\* one result per request
C12_NeverRejects ==
    pc = "tools" =>
        /\ runResult'.status # "rejected"
        /\ pc' # "tools" => Len(history') = Len(history) + Len(toolCalls)

\* C12: executeToolCalls never rejects and returns exactly one result per
\* request; a request naming an unregistered tool, or a tool whose execute
\* throws, gives a result with success = false, and the results of the
\* sibling requests are unaffected.
C12_ToolFailuresConfined ==
    /\ [](C12_OnePerRequest)
    /\ [][C12_FailureConfined]_vars
    /\ [][C12_NeverRejects]_vars

\* the unregistered get_weather failed and its sibling recall_memory
\* settled with success
C12_Witness ==
    /\ pc = "tools"
    /\ Len(exec) = 2
    /\ exec[1].name = "recall_memory" /\ exec[1].state = "done" /\ exec[1].success
    /\ exec[2].name = "get_weather" /\ exec[2].state = "done" /\ ~exec[2].success

\* the raw tool calls of the last response whose argument text is not JSON
Malformed ==
    {i \in 1..Len(lastRaw.tool_calls) :
        /\ lastRaw.tool_calls[i].arguments # EmptyStr
        /\ ~JsonIsObject(lastRaw.tool_calls[i].arguments)}

\* the request of a malformed call carries the parse-error object, and a
\* registered tool is invoked with it
C13_ParseErrorPassed ==
    pc = "tools" =>
        \A i \in Malformed :
            /\ toolCalls[i].arguments =
                  ArgsValue({"error", "raw"}, lastRaw.tool_calls[i].arguments)
            /\ toolCalls[i].name \in ToolRegistry =>
                  exec[i].invokedWith = toolCalls[i].arguments

\* the response with a malformed call is accepted, and the join pushes a
\* tool entry for that call
C13_TurnGoesOn ==
    /\ \A k \in 1..Len(ResponseMenu) :
          ReceiveResponse(MkResponse(ResponseMenu[k], turn, modelCalls))
              /\ lastRaw'.message = "present" /\ Malformed' # {}
          => pc' = "tools" /\ runResult'.status # "rejected"
    /\ pc = "tools" /\ pc' # "tools" =>
          \A i \in Malformed :
              /\ history'[Len(history) + i].role = "tool"
              /\ history'[Len(history) + i].toolCallId = lastRaw.tool_calls[i].id

\* C13: a tool-call request whose argument string is not valid JSON does
\* not make run() fail: the arguments are replaced by the parse-error
\* object, the registered tool is invoked with it, and a tool-result entry
\* for that call is appended to history.
C13_MalformedArgumentsSurvive ==
    /\ [](C13_ParseErrorPassed)
    /\ [][C13_TurnGoesOn]_vars

\* store_memory was requested with a truncated argument text, was invoked
\* with the parse-error object, and its result is the last history entry
C13_Witness ==
    /\ pc = "loop"
    /\ Len(lastRaw.tool_calls) = 1
    /\ lastRaw.tool_calls[1].arguments = ArgsTruncated
    /\ exec[1].invokedWith = ArgsValue({"error", "raw"}, ArgsTruncated)
    /\ history[Len(history)].role = "tool"
    /\ history[Len(history)].toolCallId = lastRaw.tool_calls[1].id

\* ------------------------------------------------------------------------
\* Properties of run() when a step of the turn fails
\* ------------------------------------------------------------------------
\* the response without an assistant message ends the run: run() rejects,
\* and the step itself pushes nothing and starts no tool
C23_Rejects ==
    \A k \in 1..Len(ResponseMenu) :
        LET response == MkResponse(ResponseMenu[k], turn, modelCalls)
        IN response.message = "missing" /\ ReceiveResponse(response) =>
              /\ runResult'.status = "rejected"
              /\ runResult'.raw = response
              /\ pc' = "idle"
              /\ UNCHANGED <<history, exec, modelCalls>>

\* the run that was rejected for a missing message
RejectedForMissingMessage ==
    pc = "idle" /\ runResult.status = "rejected" /\ lastRaw.message = "missing"

\* after that the calls of sendChat and the tool executions stay as they
\* are until run() is called again
C23_NothingMore ==
    RejectedForMissingMessage =>
        \/ UNCHANGED <<modelCalls, exec, history>>
        \/ turn' = turn + 1

\* C23: a chat-completion response without an assistant message makes run()
\* reject; the run makes no further chat-completion call and executes no tool.
C23_MissingMessageRejects == [][C23_Rejects /\ C23_NothingMore]_vars

\* the second response of a run, after one round of tool calls, has no
\* assistant message
C23_Witness ==
    /\ RejectedForMissingMessage
    /\ iterations = 1
    /\ modelCalls = 2
    /\ Len(exec) = 2

\* a rejected lookup leaves the run going, with nothing injected
C24_LookupFailureCaught ==
    InjectMemories("error") =>
        /\ injected'.memories = "empty"
        /\ pc' = "loop"
        /\ UNCHANGED <<runResult, history, maxRec, iterations>>

\* from the head of the loop the run goes to client.sendChat whenever the
\* loop condition holds, whatever the lookup did
C24_ThenSendChat ==
    pc = "loop" /\ LoopCondition(iterations, maxRec) =>
        pc' = "awaiting" /\ modelCalls' = modelCalls + 1

\* no memories are injected in a run whose lookup was rejected
C24_EmptySet ==
    injected.lookup = "rejected" /\ pc # "inject" => injected.memories = "empty"

\* C24: a failure of the memory lookup does not abort the turn: run()
\* continues with an empty injected-memory set and still calls the
\* chat-completion endpoint.
C24_LookupFailureDoesNotAbort ==
    /\ [][C24_LookupFailureCaught /\ C24_ThenSendChat]_vars
    /\ [](C24_EmptySet)

\* the lookup of the second run was rejected and sendChat has been called
C24_Witness ==
    /\ turn = 2
    /\ injected.lookup = "rejected"
    /\ pc = "awaiting"
    /\ modelCalls = 1

\* toOpenRouterMessages (part_000 731-737): a tool entry without a
\* toolCallId makes the adapter throw
RequiresToolCallId(h) ==
    \E i \in 1..Len(h) : h[i].role = "tool" /\ h[i].toolCallId \in {NoId, EmptyId}

\* C34: every tool entry that run() appends to history carries a non-empty
\* tool-call id, for every id the model may supply (absent, '' or a string)
\* and every toolCallId a tool may return, so the Chat Client adapter never
\* rejects the history with 'Tool messages require a toolCallId'.
C34_ToolEntriesCarryAnId == ~RequiresToolCallId(history)

\* C37: every run() call eventually returns or rejects, provided each
\* chat-completion call and each tool execution completes: for a finite
\* maxRecursions no sequence of model responses (content, tool calls, both
\* or neither) keeps the loop iterating forever.
C37_RunTerminates ==
    (pc # "idle") ~> (pc = "idle" /\ runResult.status \in {"returned", "rejected"})

\* a run() that used up maxRecursions iterations, each with tool calls and
\* no content, has returned
C37_Witness ==
    /\ pc = "idle"
    /\ runResult.status = "returned"
    /\ maxRec = MaxRecursions
    /\ iterations = maxRec
    /\ modelCalls = maxRec

\* a response with an assistant message that has neither content nor tool
\* calls
IsEmptyResponse(response) ==
    /\ ~MissingAssistantMessage(response)
    /\ normalizeAssistantMessage(response).content = EmptyStr
    /\ Len(normalizeAssistantMessage(response).toolCalls) = 0

\* the step of run() that receives such a response ends the call: history
\* and the number of chat-completion calls stay, the content returned is ""
C40_EndsWithoutAdvancing ==
    [][/\ pc = "awaiting"
       /\ runResult'.status = "returned"
       /\ IsEmptyResponse(lastRaw')
       => /\ pc' = "idle"
          /\ history' = history
          /\ modelCalls' = modelCalls
          /\ runResult'.content = EmptyStr]_vars

\* when it was the first response of the call, the call has added the user
\* entry and nothing else
C40_OnlyUserEntry ==
    /\ pc = "idle"
    /\ runResult.status = "returned"
    /\ modelCalls = 1
    /\ IsEmptyResponse(lastRaw)
    => /\ Len(history) > 0
       /\ history[Len(history)].role = "user"
       /\ \A i \in 1..Len(history) :
             history[i].turn = turn => i = Len(history)

\* C40: when a model response carries neither content nor tool calls, run()
\* ends the loop without making another chat-completion call and without
\* adding any entry to history beyond the user entry of the turn, and it
\* returns content = "".
C40_EmptyResponseEndsRun ==
    /\ C40_EndsWithoutAdvancing
    /\ [](C40_OnlyUserEntry)

\* a run() has returned "" on a first response without content and without
\* tool calls; the last entry of history is the user entry of the call
C40_Witness ==
    /\ pc = "idle"
    /\ runResult.status = "returned"
    /\ modelCalls = 1
    /\ IsEmptyResponse(lastRaw)
    /\ runResult.content = EmptyStr
    /\ Len(history) > 1
    /\ history[Len(history)].role = "user"
    /\ history[Len(history)].turn = turn

\* the entries of history that the current run() call appended
AppendedByThisCall == {i \in 1..Len(history) : history[i].turn = turn}

\* C33: a run() that rejects (missing assistant message, or a failure of
\* the chat-completion call) leaves history as it was before the call:
\* history holds no entry that the rejected call appended, so a retried
\* turn finds no dangling user entry of the failed attempt.
C33_RejectedRunLeavesHistory ==
    pc = "idle" /\ runResult.status = "rejected" => AppendedByThisCall = {}

\* ------------------------------------------------------------------------
\* Properties of the tool entries of history
\* ------------------------------------------------------------------------
\* C28: every tool entry refers back to its originating request: when the
\* results of a response are pushed, the toolCallId of each new tool entry
\* is one of the ids listed in the assistant tool-call entry pushed for that
\* response, also when the provider left the id out and one was generated.
C28_ToolEntryRefersToRequest ==
    [][pc = "tools" /\ history' # history =>
          \A k \in (Len(history) + 1)..Len(history') :
              /\ history'[k].role = "tool"
              /\ history'[k].toolCallId \in Range(history[Len(history)].tool_calls)]_vars

\* ------------------------------------------------------------------------
\* Properties of the memory tools
\* ------------------------------------------------------------------------
\* the records and the search index
Memory == <<db, searchIndex, indexedMemories>>

\* the calls of the menu that hand the parse-error object to tool `name`
ParseErrorCalls(name) ==
    {k \in 1..Len(ToolCallMenu) :
        ToolCallMenu[k].name = name /\ ToolCallMenu[k].args = ParseErrorObject}

\* tool `name`, given the parse-error object, awaits no store operation and
\* returns a failure
RejectsParseError(name) ==
    tool.call \in ParseErrorCalls(name) =>
        /\ tool.storeCalls = <<>>
        /\ tool.pc = "idle" => tool.output = "failure"

\* cleanup_memories, given the parse-error object, returns a failure
CleanupRejectsParseError ==
    \A c \in ParseErrorCleanups :
        cleanup[c].pc = "done" => ~cleanup[c].output.success

\* a step of cleanup_memories given the parse-error object leaves the
\* records and the index as they are
CleanupKeepsMemory ==
    \A c \in ParseErrorCleanups : cleanup'[c] # cleanup[c] => Memory' = Memory

\* C14: each of store_memory, recall_memory, forget_memory, update_memory,
\* list_memories and cleanup_memories, invoked with the parse-error argument
\* object, returns a failure result and leaves the Memory Store unchanged.
C14_ParseErrorRejectedByEveryTool ==
    /\ [](\A name \in ToolRegistry \ {"cleanup_memories"} : RejectsParseError(name))
    /\ [](CleanupRejectsParseError)
    /\ [][CleanupKeepsMemory]_vars

\* the recall_memory calls of the menu whose category is not one of the five
UnknownCategoryRecalls ==
    {k \in 1..Len(ToolCallMenu) :
        /\ ToolCallMenu[k].name = "recall_memory"
        /\ Truthy(Prop(ToolCallMenu[k].args, "query"))
        /\ Truthy(Prop(ToolCallMenu[k].args, "category"))
        /\ Prop(ToolCallMenu[k].args, "category").w \notin Categories}

\* C15: recall_memory called with a category outside the five is rejected
\* by the tool's own validation: it returns a failure result and no Memory
\* Store operation is performed for that call.
C15_UnknownCategoryRejected ==
    tool.call \in UnknownCategoryRecalls =>
        /\ tool.storeCalls = <<>>
        /\ tool.pc = "idle" => tool.output = "failure"

\* ------------------------------------------------------------------------
\* Properties of store() and update()
\* ------------------------------------------------------------------------
\* the arguments store() is said to refuse
ValidInput(args) == args.content # EmptyStr /\ args.category \in Categories

\* C16: store(content, category, importance) fails and persists no record
\* when content is empty, when category is missing, or when category is
\* not one of the five categories.
C16_InvalidInputPersistsNothing ==
    [][\A k \in 1..Len(InputMenu), id \in Ids :
          ~ValidInput(InputMenu[k])
          /\ Store(InputMenu[k].content, InputMenu[k].category,
                   InputMenu[k].importance, id)
          => db' = db]_vars

\* C17: for every valid (content, category, importance), store followed by
\* getById of the returned identifier yields a record with the same content
\* and category, importance clamped into [1,10], validity = valid and
\* accessCount = 0.
C17_StoreThenGetById ==
    [][\A k \in 1..Len(InputMenu), id \in Ids :
          ValidInput(InputMenu[k]) /\ id \notin DOMAIN db
          /\ Store(InputMenu[k].content, InputMenu[k].category,
                   InputMenu[k].importance, id)
          => /\ getById(id)' # NoMemory
             /\ getById(id)'.id = id
             /\ getById(id)'.content = InputMenu[k].content
             /\ getById(id)'.category = InputMenu[k].category
             /\ getById(id)'.importance =
                   (IF InputMenu[k].importance < 1 THEN 1
                    ELSE IF InputMenu[k].importance > 10 THEN 10
                    ELSE InputMenu[k].importance)
             /\ getById(id)'.isValid = 1
             /\ getById(id)'.accessCount = 0]_vars

\* records stored with importance below 1, inside [1,10] and above 10
C17_Witness ==
    /\ 1 \in DOMAIN db /\ db[1].content = TextAb /\ db[1].category = "fact"
    /\ db[1].importance = 1 /\ db[1].accessCount = 0 /\ db[1].isValid = 1
    /\ 2 \in DOMAIN db /\ db[2].content = TextAbMao /\ db[2].category = "correction"
    /\ db[2].importance = 10

\* C18: every record's importance lies in [1,10], whatever integer
\* importance store and update were given.
C18_ImportanceInRange ==
    \A id \in DOMAIN db : db[id].importance \in 1..10

\* one record was stored with importance -1 and updated with importance 12,
\* the other stored with importance 0
C18_Witness ==
    /\ 1 \in DOMAIN db /\ db[1].category = "fact" /\ db[1].content = TextAb
    /\ db[1].importance = 10
    /\ 2 \in DOMAIN db /\ db[2].category = "preference" /\ db[2].importance = 1

\* the updates of the menu that provide exactly the keys `fields`
UpdatesOf(fields) == {k \in 1..Len(UpdateMenu) : UpdateMenu[k].fields = fields}

\* C19: update(id, {importance}) with only importance provided changes
\* nothing but the importance of that record: its content, keywords,
\* category, validity, createdAt, lastAccessedAt and accessCount, and every
\* other record, are unchanged.
C19_ImportanceOnlyUpdate ==
    [][\A id \in Ids, k \in UpdatesOf({"importance"}) :
          Update(id, UpdateMenu[k]) =>
              /\ DOMAIN db' = DOMAIN db
              /\ \A other \in DOMAIN db \ {id} : db'[other] = db[other]
              /\ id \in DOMAIN db =>
                    /\ db'[id].importance \in 1..10
                    /\ db'[id] = [db[id] EXCEPT !.importance = db'[id].importance]]_vars

\* record 1, stored with importance 0, accessed on day 1 and invalidated,
\* has importance 10; record 2 is as it was stored
C19_Witness ==
    /\ DOMAIN db = {1, 2}
    /\ db[1].content = TextAb /\ db[1].category = "fact" /\ db[1].importance = 10
    /\ db[1].accessCount = 1 /\ db[1].lastAccessedAt = 1 /\ db[1].isValid = 0
    /\ db[2].content = TextAbMao /\ db[2].category = "fact" /\ db[2].importance = 5

\* the positions of record `id` in a result of search
Hits(results, id) == {i \in 1..Len(results) : results[i].memory.id = id}

\* an update whose content is the record's content changes no variable, so
\* what holds after it holds in the state it is made in: a valid record is
\* found exactly once by the content it already has
C20_SameContent ==
    \A id \in DOMAIN db, k \in UpdatesOf({"content"}) :
        db[id].isValid = 1 /\ db[id].content = UpdateMenu[k].content =>
            /\ db[id].keywords = extractKeywords(UpdateMenu[k].content)
            /\ \A results \in search(UpdateMenu[k].content, MaxIds) :
                  Cardinality(Hits(results, id)) = 1

\* an update that changes the content: the state after it
C20_NewContent ==
    \A id \in Ids, k \in UpdatesOf({"content"}) :
          id \in DOMAIN db /\ db[id].isValid = 1 /\ Update(id, UpdateMenu[k]) =>
              /\ db'[id].keywords = extractKeywords(UpdateMenu[k].content)
              /\ \A after \in {initSearchIndex(This', db')} :
                    /\ \A results \in searchWith(after, UpdateMenu[k].content, MaxIds) :
                          Cardinality(Hits(results, id)) = 1
                    /\ \A term \in Range(extractKeywords(db[id].content))
                                      \ Range(extractKeywords(UpdateMenu[k].content)) :
                          \A results \in searchWith(after, term, MaxIds) :
                              Hits(results, id) = {}

\* C20: update(id, {content}) on a valid record recomputes keywords from the
\* new content and replaces the record's search-index entry: afterwards
\* search finds the record by its new content exactly once, and no longer
\* by terms that occur only in the old content.
C20_ContentUpdateReindexes ==
    /\ [][C20_NewContent]_vars
    /\ [](C20_SameContent)

\* ------------------------------------------------------------------------
\* Properties of invalidate, delete and recordAccess
\* ------------------------------------------------------------------------
\* a second invalidate(id) leaves the database and the index as the first
\* one left them, whatever state the first one was called in
C21_InvalidateTwice ==
    \A id \in Ids :
        LET once == invalidated(db, This, id)
        IN invalidated(once.db, once.this, id) = once

\* invalidate, delete and recordAccess of an identifier that is not in the
\* database change nothing
C21_UnknownIdChangesNothing ==
    \A id \in Ids :
        id \notin DOMAIN db /\ (Invalidate(id) \/ Delete(id) \/ RecordAccess(id)) =>
            UNCHANGED storeVars

\* ... and each of the three can be called on it: the model has no outcome
\* but the resolved one
C21_UnknownIdResolves ==
    \A id \in Ids \ DOMAIN db :
        ENABLED Invalidate(id) /\ ENABLED Delete(id) /\ ENABLED RecordAccess(id)

\* C21: invalidate is idempotent, and invalidate, delete and recordAccess on
\* an identifier that does not exist resolve and leave the store unchanged.
C21_IdempotentAndSilentOnUnknownId ==
    /\ [](C21_InvalidateTwice)
    /\ [](C21_UnknownIdResolves)
    /\ [][C21_UnknownIdChangesNothing]_vars

\* record 1 was indexed and then invalidated, identifier 2 is not in the
\* database
C21_Witness ==
    /\ DOMAIN db = {1}
    /\ db[1].isValid = 0
    /\ searchIndex.exists /\ indexInitialized
    /\ 1 \notin DOMAIN searchIndex.docs
    /\ 1 \notin DOMAIN indexedMemories

\* ------------------------------------------------------------------------
\* Properties of search
\* ------------------------------------------------------------------------
\* the empty query and queries of whitespace only
BlankQueries == {<<>>, <<" ">>, <<" ", "\n">>}

\* the search of the class that uses the index returns [] for a blank query
C22_IndexedSearch ==
    \A query \in BlankQueries, limit \in Limits : search(query, limit) = {<<>>}

\* the search of the index-free class returns [] for a blank query
C22_IndexFreeSearch ==
    \A query \in BlankQueries, limit \in Limits : searchIndexFree(query, limit) = <<>>

\* C22: search with an empty or whitespace-only query returns an empty list
\* for every store content; it never behaves as 'match all'.
C22_BlankQueryFindsNothing == C22_IndexedSearch /\ C22_IndexFreeSearch

\* ------------------------------------------------------------------------
\* Properties of the identifiers of the records
\* ------------------------------------------------------------------------
\* every record is kept under its own id, and the object store holds one
\* record per key: no two records share an id
C29_OneRecordPerId == \A id \in DOMAIN db : db[id].id = id

\* store() leaves every record that exists as it is, also when generateId()
\* returns the id of one of them: a step that removes or changes a record is
\* not a step of store()
C29_StoreNeverOverwrites ==
    [][(\E old \in DOMAIN db : old \notin DOMAIN db' \/ db'[old] # db[old]) =>
          \A k \in 1..Len(StoreMenu), id \in Ids :
              ~StoreAssigns(StoreMenu[k].content, StoreMenu[k].category,
                            StoreMenu[k].importance, id)]_vars

\* update(), like every other operation, keeps a record under the id it had
C29_UpdateKeepsId ==
    [][\A r \in DOMAIN db \cap DOMAIN db' : db'[r].id = db[r].id]_vars

\* a record is created only under an id that no record has had before
C29_DeletedIdNotAssignedAgain ==
    [][\A id \in Ids :
          id \notin DOMAIN db /\ id \in DOMAIN db' => id \notin assigned]_vars

\* C29: identifiers are unique and immutable: no two records share an id,
\* store never overwrites an existing record, update never changes the id of
\* a record, and the id of a deleted record is never assigned to a record
\* created later.
C29_IdentifiersUniqueAndImmutable ==
    /\ [](C29_OneRecordPerId)
    /\ C29_StoreNeverOverwrites
    /\ C29_UpdateKeepsId
    /\ C29_DeletedIdNotAssignedAgain

\* ------------------------------------------------------------------------
\* Properties of the search index as a projection of the records
\* ------------------------------------------------------------------------
\* the record of `id` is findable through the in-memory index: it is in the
\* text index and in the indexedMemories cache
Findable(id) ==
    /\ searchIndex.exists
    /\ id \in DOMAIN searchIndex.docs
    /\ id \in DOMAIN indexedMemories

\* C32: with the search index initialized, a record is findable through
\* the in-memory index (in the text index and in the indexedMemories cache)
\* if and only if it exists in the persistent store with validity = valid,
\* after any sequence of store, update, recordAccess, invalidate, delete and
\* clearAll.
C32_IndexIsProjectionOfValidRecords ==
    indexInitialized =>
        \A id \in Ids : Findable(id) <=> (id \in DOMAIN db /\ db[id].isValid = 1)

\* ------------------------------------------------------------------------
\* Properties of the tool registry
\* ------------------------------------------------------------------------
\* the registrations the constructor attempts, in order
Registrations(options) ==
    options.tools \o (IF options.enableMemoryTools # "false" THEN memoryTools ELSE <<>>)

\* the first tool of the list with that name
FirstUnder(tools, name) ==
    tools[CHOOSE i \in 1..Len(tools) :
             /\ tools[i].name = name
             /\ \A j \in 1..(i - 1) : tools[j].name # name]

\* registerTool with a name that is registered leaves the registry as it is
C31_RegisterAgainChangesNothing ==
    \A t \in CallerTools \cup Range(memoryTools) :
        agentOptions # NoOptions /\ t.name \in DOMAIN toolRegistry =>
            registerTool(toolRegistry, t) = toolRegistry

\* after construction every name the constructor was given maps to the
\* first tool registered under it, and no tool of the caller has been
\* replaced by a memory tool
C31_FirstRegistrationKept ==
    agentOptions # NoOptions =>
        LET tools == Registrations(agentOptions)
        IN /\ \A i \in 1..Len(tools) :
                 /\ tools[i].name \in DOMAIN toolRegistry
                 /\ toolRegistry[tools[i].name] = FirstUnder(tools, tools[i].name)
           /\ \A i \in 1..Len(agentOptions.tools) :
                 toolRegistry[agentOptions.tools[i].name].impl # "memory"

\* no step replaces or removes a registered tool
C31_NoStepReplaces ==
    [][\A name \in DOMAIN toolRegistry :
          name \in DOMAIN toolRegistry' /\ toolRegistry'[name] = toolRegistry[name]]_vars

\* C31: tool registration is first-wins: registerTool with a name that is
\* already registered leaves the registry unchanged, a built-in memory tool
\* never replaces a caller-provided tool of the same name, and each name
\* maps to the first tool registered under it.
C31_FirstRegistrationWins ==
    /\ [](C31_RegisterAgainChangesNothing)
    /\ [](C31_FirstRegistrationKept)
    /\ C31_NoStepReplaces

\* the caller gave two tools named store_memory: the first one is
\* registered, recall_memory is the memory tool, and a later registerTool
\* added weather
C31_Witness ==
    /\ agentOptions = AgentOptions(<<Tool("store_memory", "callerA"),
                                     Tool("store_memory", "callerB")>>, "undefined")
    /\ toolRegistry["store_memory"] = Tool("store_memory", "callerA")
    /\ toolRegistry["recall_memory"] = Tool("recall_memory", "memory")
    /\ "weather" \in DOMAIN toolRegistry
    /\ toolRegistry["weather"] = Tool("weather", "callerB")

\* ------------------------------------------------------------------------
\* Properties of recall_memory and forget_memory
\* ------------------------------------------------------------------------
\* an execution of the tool `name` is under way
Executing(name) == tool.pc # "idle" /\ ToolCallMenu[tool.call].name = name

AccessCounts == [id \in DOMAIN db |-> db[id].accessCount]

\* the step in which recall_memory responds with success: each record it
\* returns has one access more, every other record has as many as before
C26_RecordedOnReturn ==
    Executing("recall_memory") /\ tool'.pc = "idle" /\ tool'.output = "success" =>
        /\ tool.pc = "recordAccess"
        /\ DOMAIN db' = DOMAIN db
        /\ \A id \in DOMAIN db :
              db'[id].accessCount =
                 IF id \in Range(tool.memories)
                 THEN db[id].accessCount + 1 ELSE db[id].accessCount
        /\ \A id \in Range(tool.memories) : id \in DOMAIN db

\* from the call to that step the access counts are those found at the call
C26_NoAccessBefore ==
    Executing("recall_memory") /\ tool'.pc # "idle" => AccessCounts' = AccessCounts

\* C26: a successful recall_memory has called recordAccess on every record
\* it returns before it responds: their accessCount is exactly one higher
\* than before the call, that of every other record is unchanged.
C26_RecallRecordsEveryAccess == [][C26_RecordedOnReturn /\ C26_NoAccessBefore]_vars

\* recall_memory has returned one of two valid records
C26_Witness ==
    /\ tool.pc = "idle" /\ tool.output = "success"
    /\ tool.call # 0 /\ ToolCallMenu[tool.call].name = "recall_memory"
    /\ tool.storeCalls = <<"getByCategory", "recordAccess">>
    /\ \E id, other \in DOMAIN db :
          /\ db[id].accessCount = 1 /\ db[id].lastAccessedAt = now
          /\ db[other].accessCount = 0 /\ db[other].isValid = 1

\* the arguments of the forget_memory call under way
ForgetArgs == ToolCallMenu[tool.call].args

\* an unknown memoryId: the tool returns a failure and changes nothing
C27_UnknownFails ==
    /\ Executing("forget_memory") /\ tool.pc = "getById"
    /\ Prop(ForgetArgs, "memoryId").n \notin DOMAIN db
    /\ tool' # tool
    => /\ tool'.pc = "idle" /\ tool'.output = "failure"
       /\ UNCHANGED storeVars

\* a successful return leaves the record invalidated; with a reason the
\* step that returns has created one valid correction of importance 3,
\* without a reason it has created nothing
C27_KnownForgotten ==
    Executing("forget_memory") /\ tool'.pc = "idle" /\ tool'.output = "success" =>
        LET memoryId == Prop(ForgetArgs, "memoryId").n
            created == DOMAIN db' \ DOMAIN db
        IN /\ memoryId \in DOMAIN db' /\ db'[memoryId].isValid = 0
           /\ \A id \in DOMAIN db : id \in DOMAIN db'
           /\ IF Truthy(Prop(ForgetArgs, "reason"))
              THEN /\ Cardinality(created) = 1
                   /\ \A id \in created :
                         /\ db'[id].category = "correction"
                         /\ db'[id].importance = 3
                         /\ db'[id].isValid = 1
                   /\ \A id \in DOMAIN db : db'[id] = db[id]
              ELSE created = {}

\* before it returns, forget_memory creates no record
C27_CreatesNothingBefore ==
    Executing("forget_memory") /\ tool'.pc # "idle" => DOMAIN db' = DOMAIN db

\* C27: forget_memory with an unknown memoryId returns a failure (it does
\* not throw) and changes nothing; with a known memoryId it leaves that
\* record invalidated, and when a reason is supplied it additionally creates
\* exactly one new valid record of category 'correction' with importance 3.
C27_ForgetMemory ==
    [][C27_UnknownFails /\ C27_KnownForgotten /\ C27_CreatesNothingBefore]_vars

\* record 1 was forgotten with a reason: it is invalid and record 2 is the
\* correction
C27_Witness ==
    /\ tool.pc = "idle" /\ tool.output = "success"
    /\ tool.storeCalls = <<"getById", "invalidate", "store">>
    /\ DOMAIN db = {1, 2}
    /\ db[1].isValid = 0
    /\ db[2].category = "correction" /\ db[2].importance = 3 /\ db[2].isValid = 1

\* C35: forget_memory is all-or-nothing: whenever it returns a failure
\* result (also when the store fails while the correction is written), the
\* validity of the target record is what it was before the call, which is
\* what getById read.
C35_ForgetAllOrNothing ==
    [][/\ Executing("forget_memory")
       /\ tool.pc \in {"invalidate", "storeCorrection"}
       /\ tool'.pc = "idle" /\ tool'.output = "failure"
       => LET memoryId == Prop(ForgetArgs, "memoryId").n
          IN memoryId \in DOMAIN db' /\ db'[memoryId].isValid = tool.isValid]_vars

\* ------------------------------------------------------------------------
\* Properties of getRelevantMemories
\* ------------------------------------------------------------------------
\* C25: selecting the injected memories never mutates the Memory Store:
\* every step of getRelevantMemories leaves every record as it is and
\* creates or deletes no record.
C25_InjectionReadsOnly == [][relevant' # relevant => db' = db]_vars

\* a call has resolved after the direct search, the search for an expanded
\* term and getMostImportant each delivered records
C25_Witness ==
    /\ relevant.settled = "resolved"
    /\ relevant.directResults # <<>>
    /\ relevant.termResults # <<>>
    /\ relevant.importantMemories # <<>>
    /\ \A id \in DOMAIN db : db[id].accessCount = 0 /\ db[id].lastAccessedAt = 0

\* the return value: at most limit records, no id twice, valid records
C30_Bounded ==
    relevant.settled = "resolved" =>
        /\ Len(relevant.returned) <= relevant.limit
        /\ \A i, j \in 1..Len(relevant.returned) :
              relevant.returned[i].id = relevant.returned[j].id => i = j
        /\ \A i \in 1..Len(relevant.returned) : relevant.returned[i].isValid = 1

\* a record that becomes a candidate is a valid record of the database in
\* the step that reads it
C30_ValidWhenRead ==
    \A i \in (Len(relevant.candidates) + 1)..Len(relevant'.candidates) :
        LET memory == relevant'.candidates[i]
        IN /\ memory.id \in DOMAIN db
           /\ db[memory.id] = memory
           /\ memory.isValid = 1

\* C30: getRelevantMemories(context, limit) returns at most limit records,
\* no identifier twice, and every returned record was valid when it was
\* read, whatever the overlap between the three sources.
C30_BoundedDistinctValid ==
    /\ [](C30_Bounded)
    /\ [][relevant' # relevant /\ relevant.pc # "idle" => C30_ValidWhenRead]_vars

\* the record found by the direct search is found again by the search for
\* an expanded term and by getMostImportant; limit records are returned
C30_Witness ==
    /\ relevant.settled = "resolved"
    /\ Range(relevant.directResults) \cap Range(relevant.termResults) # {}
    /\ Range(relevant.directResults) \cap Range(relevant.importantMemories) # {}
    /\ relevant.limit = 2
    /\ Len(relevant.returned) = 2

\* ------------------------------------------------------------------------
\* Properties of the chat component
\* ------------------------------------------------------------------------
\* the sendMessage calls whose run() has been called and has not settled
InFlight == {c \in SendIds : sends[c].pc = "running"}

\* the calls between isResponding = true and the finally block
Responding == {c \in SendIds : sends[c].pc \in {"running", "counting"}}

\* a sendMessage step taken while a run() is in flight calls no run()
C11_NoSecondRun ==
    \A c \in SendIds, text \in SendTexts :
        SendMessage(c, text) /\ InFlight # {} => sends'[c].pc = "returned"

\* the step in which run() rejects, and the step in which the call that
\* followed a resolved run() reaches its finally block, clear the flag
C11_FlagCleared ==
    \A c \in SendIds :
        sends[c].pc \in {"running", "counting"} /\ sends'[c].pc = "done"
            => ~isResponding'

\* C11: at most one run() call is in flight, on whichever Agent; sendMessage
\* returns without calling run() while one is in flight; isResponding is set
\* exactly while a call is between its run() and its finally block, which
\* it reaches when run() rejects and, after run() resolves, when the memory
\* count has been read.
C11_OneRunAtATime ==
    /\ [](Cardinality(InFlight) <= 1)
    /\ [](isResponding <=> Responding # {})
    /\ [][C11_NoSecondRun]_vars
    /\ [][C11_FlagCleared]_vars

\* a message was refused while a run() was in flight (call 2), and after the
\* run() of call 1 had settled a later message started a run() (call 3)
C11_Witness ==
    /\ sends[1].pc = "done" /\ chatError = "none"
    /\ sends[2].pc = "returned"
    /\ sends[3].pc = "running"
    /\ sends[3].agent = sends[1].agent

====
